---- MODULE Spec2Model ----
(***************************************************************************)
(* Conversation analytics engine of instinto-retailcrm-sync:               *)
(*   analysis_rules.py   business-hours clock, per-chat metrics, roll-ups  *)
(*   weekly_digest.py    snapshot history and weekly deltas                *)
(*   behavior_digest.py  per-chat ordering, snapshot history and deltas    *)
(* Time is counted in whole units; a calendar day has DayLen units.        *)
(***************************************************************************)
EXTENDS Integers, Sequences, FiniteSets, TLC

VARIABLES
    start_dt, end_dt,        \* arguments of _business_seconds_between
    work_start, work_end,    \* the parsed work window (time of day)
    elapsed,                 \* outcome of _business_seconds_between
    messages,                \* the message list of the chat under analysis
    metrics,                 \* outcome of compute_chat_metrics
    sorted_ms,               \* outcome of the per-chat sort of behavior_digest
    values, pct_p, pct_out,  \* arguments and result of _pct
    metrics_rows,            \* ChatMetrics handed to the aggregators
    agg_pc,                  \* "collect" while chats are processed, then "done"
    manager_summary,         \* rows of aggregate_manager_summary
    channel_summary,         \* rows of aggregate_channel_summary
    now,                     \* wall clock of the pipeline, in days
    pc,                      \* position of run_all.main
    summary_sheet,           \* worksheet manager_summary
    channel_sheet,           \* worksheet channel_summary
    hist_mgr,                \* worksheet history_manager_summary
    hist_ch,                 \* worksheet history_channel_summary
    chats_raw,               \* worksheets chats_raw / messages_raw, per manager
    hist_beh,                \* worksheet history_behavior_managers
    mgr_baseline,            \* pick_baseline result of the last weekly_digest run
    ch_baseline,             \* pick_baseline result for the channels
    beh_baseline,            \* baseline dict of the last behavior_digest run
    runs,                    \* number of pipeline runs started
    digest_rows,             \* worksheet weekly_digest_managers
    channel_digest_rows,     \* worksheet weekly_digest_channels
    delta_rows,              \* worksheet weekly_behavior_delta_managers
    web_chats,               \* the chats export_to_sheets.main iterates over
    chats_table,             \* worksheet chats_raw as export_to_sheets wrote it
    messages_table,          \* worksheet messages_raw as export_to_sheets wrote it
    behavior_out,            \* what behavior_digest.main wrote
    slow_first_reply_sec,    \* argument slow_first_reply_sec of compute_chat_metrics
    stage_text,              \* argument text of detect_sales_stage
    position_in_chat,        \* argument position_in_chat of detect_sales_stage
    total_messages,          \* argument total_messages of detect_sales_stage
    stage,                   \* result of detect_sales_stage
    flow_messages,           \* argument of extract_dialog_flow
    flow,                    \* result of extract_dialog_flow
    flow_pc,                 \* "pending" until extract_dialog_flow has returned
    spin_metrics,            \* chat_metrics of spin_analysis.main
    spin_agg,                \* result of aggregate_manager_spin
    spin_pc,                 \* "collect" during the chat loop, then "done"
    cand_chats,              \* the chats of behavior_digest's example loop
    top_examples,            \* pick_top of each example category
    top_pc,                  \* "pending" until the pick_top calls have returned
    pending_chats,           \* chats export_to_sheets.main has still to process
    batch_size,              \* BATCH_SIZE
    processed,               \* processed of export_to_sheets.main
    batch_num,               \* batch_num of export_to_sheets.main
    chats_rows,              \* chats_rows of export_to_sheets.main
    messages_rows,           \* messages_rows of export_to_sheets.main
    chats_ws,                \* values of worksheet chats_raw, row by row
    messages_ws,             \* values of worksheet messages_raw, row by row
    export_pc,               \* "loop" during the chat loop, "flush", then "done"
    http_client,             \* the client whose request is in progress
    max_retries,             \* max_retries of that client
    attempt,                 \* attempt of the retry loop
    http_log,                \* outcomes of the HTTP requests issued so far
    http_result              \* outcome of the call

vars == << start_dt, end_dt, work_start, work_end, elapsed, messages, metrics,
           sorted_ms, values, pct_p, pct_out, metrics_rows, agg_pc,
           manager_summary, channel_summary, now, pc, summary_sheet,
           channel_sheet, hist_mgr, hist_ch, chats_raw, hist_beh, mgr_baseline,
           ch_baseline, beh_baseline, runs, digest_rows, channel_digest_rows,
           delta_rows, web_chats, chats_table,
           messages_table, behavior_out, slow_first_reply_sec, stage_text,
           position_in_chat, total_messages, stage, flow_messages, flow, flow_pc,
           spin_metrics, spin_agg, spin_pc, cand_chats, top_examples, top_pc,
           pending_chats, batch_size, processed, batch_num, chats_rows,
           messages_rows, chats_ws, messages_ws, export_pc, http_client,
           max_retries, attempt, http_log, http_result >>

clockVars == << start_dt, end_dt, work_start, work_end, elapsed >>
chatVars == << messages, metrics, sorted_ms >>
pctVars == << values, pct_p, pct_out >>
aggVars == << metrics_rows, agg_pc, manager_summary, channel_summary >>
digestVars == << now, pc, summary_sheet, channel_sheet, hist_mgr, hist_ch,
                 chats_raw, hist_beh, mgr_baseline, ch_baseline, beh_baseline,
                 runs, digest_rows, channel_digest_rows, delta_rows >>
behVars == << web_chats, chats_table, messages_table, behavior_out >>
adviceVars == << slow_first_reply_sec >>
stageVars == << stage_text, position_in_chat, total_messages, stage,
                flow_messages, flow, flow_pc >>
spinVars == << spin_metrics, spin_agg, spin_pc >>
topVars == << cand_chats, top_examples, top_pc >>
exportVars == << pending_chats, batch_size, processed, batch_num, chats_rows,
                 messages_rows, chats_ws, messages_ws, export_pc >>
httpVars == << http_client, max_retries, attempt, http_log, http_result >>
moreVars == << topVars, exportVars, httpVars >>
restVars == << adviceVars, stageVars, spinVars, moreVars >>
extraVars == << behVars, restVars >>

-----------------------------------------------------------------------------
(* Bounds *)

DayLen == 4            \* units per calendar day
MaxDays == 3           \* calendar days spanned by the clock inputs
MaxT == 3              \* latest message time of a chat
MaxMsgs == 4           \* messages per chat
TzOffset == 1          \* UTC offset of the configured zone, in units

Max(a, b) == IF a >= b THEN a ELSE b
Min(a, b) == IF a <= b THEN a ELSE b

BoundedSeq(S, n) == UNION { [1..k -> S] : k \in 0..n }

-----------------------------------------------------------------------------
(* Optional datetimes.  An aware datetime carries its UTC instant in t, a   *)
(* naive one its wall reading.                                              *)

NoneDt == [some |-> FALSE, t |-> 0, aware |-> FALSE]
Dt(t, aware) == [some |-> TRUE, t |-> t, aware |-> aware]
DatetimeMin == [some |-> TRUE, t |-> -1, aware |-> FALSE]

\* Raw sentAt values as they arrive: absent, not ISO-8601, or a timestamp.
RawEmpty == [raw |-> "empty", t |-> 0, aware |-> FALSE]
RawGarbage == [raw |-> "garbage", t |-> 0, aware |-> FALSE]
RawIso(t, aware) == [raw |-> "iso", t |-> t, aware |-> aware]

\* _dt: falsy -> None, isoparse failure -> None, otherwise the datetime.
_dt(v) ==
    IF v.raw = "empty" THEN NoneDt
    ELSE IF v.raw = "garbage" THEN NoneDt
    ELSE Dt(v.t, v.aware)

\* _to_tz: wall reading in the configured zone.
_to_tz(dt) == IF dt.aware THEN dt.t + TzOffset ELSE dt.t

\* Python refuses to order a naive datetime against an aware one.
Comparable(a, b) == a.aware = b.aware

-----------------------------------------------------------------------------
(* Outcomes of a call: an int, None, or a raised exception. *)

IntOut(n) == [tag |-> "int", val |-> n]
NoneOut == [tag |-> "None", val |-> 0]
Raised(e) == [tag |-> e, val |-> 0]
Pending == [tag |-> "pending", val |-> 0]

\* the raw wall-clock difference, with no clipping to the work window
WalkDaysWallClock(s, e, ws, we, cur_day, last_day, total) == e - s

\* the window of the first day only, with no loop over the later days
WalkDaysFirstDayOnly(s, e, ws, we, cur_day, last_day, total) ==
    LET seg_start == Max(s, cur_day * DayLen + ws)
        seg_end == Min(e, cur_day * DayLen + we)
    IN  IF seg_end > seg_start THEN total + (seg_end - seg_start) ELSE total

\* The while loop over calendar days of _business_seconds_between.
RECURSIVE WalkDays(_, _, _, _, _, _, _)
WalkDays(s, e, ws, we, cur_day, last_day, total) ==
    IF cur_day > last_day THEN total
    ELSE LET window_start == cur_day * DayLen + ws
             window_end == cur_day * DayLen + we
             seg_start == Max(s, window_start)
             seg_end == Min(e, window_end)
         IN  WalkDays(s, e, ws, we, cur_day + 1, last_day,
                      IF seg_end > seg_start THEN total + (seg_end - seg_start)
                      ELSE total)

_business_seconds_between(sdt, edt, ws, we) ==
    IF ~Comparable(sdt, edt) THEN Raised("TypeError")
    ELSE IF edt.t < sdt.t THEN NoneOut
    ELSE IF we <= ws THEN Raised("ValueError")
    ELSE LET s == _to_tz(sdt)
             e == _to_tz(edt)
         IN  IntOut(WalkDays(s, e, ws, we, s \div DayLen, e \div DayLen, 0))

-----------------------------------------------------------------------------
(* Text.  A text is a sequence of one-character strings.  The Russian words *)
(* of the patterns are written in Latin letters, one letter for one letter. *)

Letters == { "a", "b", "c", "d", "e", "f", "g", "h", "i", "j", "k", "l", "m",
             "n", "o", "p", "q", "r", "s", "t", "u", "v", "w", "x", "y", "z" }
Digits == { "0", "1", "2", "3", "4", "5", "6", "7", "8", "9" }

\* \w, \d and \s of the re module
IsWordChar(c) == c \in Letters \cup Digits \cup { "_" }
IsDigit(c) == c \in Digits
IsSpace(c) == c \in { " ", "\n", "\t" }

\* \b between s[i-1] and s[i]; outside the string counts as a non-word
BoundaryAt(s, i) ==
    LET before == i > 1 /\ i - 1 <= Len(s) /\ IsWordChar(s[i - 1])
        after == i >= 1 /\ i <= Len(s) /\ IsWordChar(s[i])
    IN  before # after

StartsWith(s, i, w) ==
    /\ i >= 1
    /\ i + Len(w) - 1 <= Len(s)
    /\ SubSeq(s, i, i + Len(w) - 1) = w

\* word in text
Contains(s, w) == \E i \in 1..Len(s) : StartsWith(s, i, w)

\* re.search(r"\b(w1|w2|...)\b", s)
HasWord(s, words) ==
    \E w \in words, i \in 1..Len(s) :
        StartsWith(s, i, w) /\ BoundaryAt(s, i) /\ BoundaryAt(s, i + Len(w))

\* s.count(c)
CountChar(s, c) == Cardinality({ i \in DOMAIN s : s[i] = c })

\* the character classes of the redaction patterns
InClass(c, class) ==
    CASE class = "nonspace" -> ~IsSpace(c)
      [] class = "word" -> IsWordChar(c)
      [] class = "digit" -> IsDigit(c)
      [] class = "local" -> IsWordChar(c) \/ c \in { ".", "-", "+" }
      [] class = "domain" -> IsWordChar(c) \/ c \in { ".", "-" }
      [] class = "phone" -> IsDigit(c) \/ IsSpace(c) \/ c \in { "-", "(", ")" }
      [] OTHER -> FALSE

\* the first position at or after i that is not in the class
RECURSIVE RunEnd(_, _, _)
RunEnd(s, i, class) ==
    IF i > Len(s) \/ ~InClass(s[i], class) THEN i
    ELSE RunEnd(s, i + 1, class)

-----------------------------------------------------------------------------
(* compute_chat_metrics (analysis_rules.py) *)

Msg(direction, sentAt) == [direction |-> direction, sentAt |-> sentAt, text |-> << >>]

\* [m for m in messages if m.get("direction") == d]
ByDirection(ms, d) == SelectSeq(ms, LAMBDA m : m.direction = d)

\* [_dt(m.get("sentAt")) for m in ms], then [t for t in ... if t]
ParsedTimes(ms) ==
    LET parsed == [i \in DOMAIN ms |-> _dt(ms[i].sentAt)]
    IN  SelectSeq(parsed, LAMBDA t : t.some)

\* min()/max()/sorted() raise TypeError on a naive/aware mix.
Mixed(ts) == \E i, j \in DOMAIN ts : ~Comparable(ts[i], ts[j])

PyMin(ts) ==
    IF ts = << >> THEN NoneDt
    ELSE ts[CHOOSE i \in DOMAIN ts : \A j \in DOMAIN ts : ts[i].t <= ts[j].t]

PyMax(ts) ==
    IF ts = << >> THEN NoneDt
    ELSE ts[CHOOSE i \in DOMAIN ts : \A j \in DOMAIN ts : ts[i].t >= ts[j].t]

\* sorted(): stable, ascending.
RECURSIVE InsertSorted(_, _)
InsertSorted(sorted, x) ==
    IF sorted = << >> THEN << x >>
    ELSE IF Head(sorted).t <= x.t THEN << Head(sorted) >> \o InsertSorted(Tail(sorted), x)
    ELSE << x >> \o sorted

RECURSIVE PySorted(_)
PySorted(ts) ==
    IF ts = << >> THEN << >>
    ELSE InsertSorted(PySorted(SubSeq(ts, 1, Len(ts) - 1)), ts[Len(ts)])

\* the earliest outbound of the chat, whatever the first inbound is
FirstOutboundAny(sorted, first_in) ==
    IF sorted = << >> THEN NoneDt ELSE Head(sorted)

\* for t in sorted(outbound_times): if t >= first_inbound_at: take it, break
RECURSIVE FirstAtOrAfter(_, _)
FirstAtOrAfter(sorted, first_in) ==
    IF sorted = << >> THEN NoneDt
    ELSE IF Head(sorted).t >= first_in.t THEN Head(sorted)
    ELSE FirstAtOrAfter(Tail(sorted), first_in)

\* a count that also takes an inbound stamped exactly at the cutoff
CountAtOrAfter(inbound_times, cutoff) ==
    Cardinality({ i \in DOMAIN inbound_times :
                    ~cutoff.some \/ inbound_times[i].t >= cutoff.t })

\* for t in inbound_times: if cutoff is None or t > cutoff: += 1
CountAfter(inbound_times, cutoff) ==
    Cardinality({ i \in DOMAIN inbound_times :
                    ~cutoff.some \/ inbound_times[i].t > cutoff.t })

\* The advice strings (analysis_rules.py:194-210), named by their rule.
NoReplyAdvice == "Net otveta menedzhera na vhodyashchie soobshcheniya"
SlowReplyAdvice == "Dolgij pervyj otvet"
UnansweredAdvice == "Est neprochitannye/neotvechennye vhodyashchie"
FewQuestionsAdvice == "Malo utochnyayushchih voprosov"
NoNextStepAdvice == "Klient proyavlyaet interes, no net yavnogo next step"

SlowFirstReplyDefault == 600
AdviceTextLimit == 6

\* " \n".join(texts)
RECURSIVE JoinTexts(_)
JoinTexts(texts) ==
    IF texts = << >> THEN << >>
    ELSE IF Len(texts) = 1 THEN texts[1]
    ELSE texts[1] \o << " ", "\n" >> \o JoinTexts(Tail(texts))

\* " \n".join([str(m.get("text") or "") for m in ms][:6])
JoinedText(ms) ==
    JoinTexts(SubSeq([i \in DOMAIN ms |-> ms[i].text], 1, Min(Len(ms), AdviceTextLimit)))

\* re.search(r"\bw1\s+w2\b", s)
HasWordPair(s, w1, w2) ==
    \E i \in 1..Len(s), k \in 1..Len(s) :
        /\ BoundaryAt(s, i) /\ StartsWith(s, i, w1)
        /\ k > i + Len(w1)
        /\ \A j \in (i + Len(w1))..(k - 1) : IsSpace(s[j])
        /\ StartsWith(s, k, w2) /\ BoundaryAt(s, k + Len(w2))

\* re.search(r"\?\s*$", s)
QuestionAtEnd(s) ==
    \E i \in 1..Len(s) : s[i] = "?" /\ \A j \in (i + 1)..Len(s) : IsSpace(s[j])

QuestionWords ==
    { << "k", "a", "k", "o", "j" >>, << "k", "a", "k", "a", "q" >>,
      << "k", "a", "k", "i", "e" >>, << "c", "t", "o" >>,
      << "s", "k", "o", "l", "x", "k", "o" >>, << "k", "o", "g", "d", "a" >>,
      << "g", "d", "e" >> }

\* _RE_HAS_QUESTION.search(s)
_RE_HAS_QUESTION(s) == QuestionAtEnd(s) \/ HasWord(s, QuestionWords)

PriceWords ==
    { << "c", "e", "n", "a" >>, << "p", "r", "a", "j", "s" >>,
      << "s", "t", "o", "i", "m", "o", "s", "t", "x" >> }
BuyWords ==
    { << "h", "o", "c", "u" >>, << "k", "u", "p", "i", "t", "x" >>,
      << "k", "u", "p", "l", "w" >>, << "z", "a", "k", "a", "j", "u" >>,
      << "z", "a", "k", "a", "j", "a", "t", "x" >>,
      << "o", "f", "o", "r", "m", "i", "t", "x" >>,
      << "o", "f", "o", "r", "m", "l", "q", "e", "m" >> }
AvailWords ==
    { << "n", "a", "l", "i", "c", "i", "e" >>, << "n", "a", "l", "i", "c", "i", "i" >>,
      << "e", "s", "t", "x" >> }
StepWords ==
    { << "o", "f", "o", "r", "m", "i", "m" >>, << "s", "s", "y", "l", "k", "a" >>,
      << "k", "o", "r", "z", "i", "n", "a" >>, << "k", "o", "r", "z", "i", "n", "u" >>,
      << "o", "p", "l", "a", "t", "a" >>, << "o", "p", "l", "a", "t", "i", "t", "x" >>,
      << "d", "o", "s", "t", "a", "v", "k", "a" >> }

_RE_PRICE_INTENT(s) ==
    \/ HasWord(s, PriceWords)
    \/ HasWordPair(s, << "s", "k", "o", "l", "x", "k", "o" >>, << "s", "t", "o", "i", "t" >>)
_RE_BUY_INTENT(s) == HasWord(s, BuyWords)
_RE_AVAIL_INTENT(s) ==
    \/ HasWord(s, AvailWords)
    \/ HasWordPair(s, << "v" >>, << "n", "a", "l", "i", "c", "i", "i" >>)
_RE_NEXT_STEP(s) == HasWord(s, StepWords)

\* if cond: advice.append(a)
AppendIf(advice, cond, a) == IF cond THEN Append(advice, a) ELSE advice

\* a rule that flags every chat without an outbound message
NoReplyRuleAnyChat(inbound_count, outbound_count) == outbound_count = 0

\* if inbound_count > 0 and outbound_count == 0
NoReplyRule(inbound_count, outbound_count) == inbound_count > 0 /\ outbound_count = 0

\* the rules in the order of the code
AdviceRules(inbound, outbound, first_response_sec, unanswered_inbound, slow) ==
    LET inbound_count == Len(inbound)
        outbound_count == Len(outbound)
        text_out == JoinedText(outbound)
        text_in == JoinedText(inbound)
        both == inbound_count > 0 /\ outbound_count > 0
        intent == \/ _RE_PRICE_INTENT(text_in)
                  \/ _RE_BUY_INTENT(text_in)
                  \/ _RE_AVAIL_INTENT(text_in)
        a1 == AppendIf(<< >>, NoReplyRule(inbound_count, outbound_count), NoReplyAdvice)
        a2 == AppendIf(a1, first_response_sec.tag = "int"
                           /\ first_response_sec.val > slow, SlowReplyAdvice)
        a3 == AppendIf(a2, unanswered_inbound > 0, UnansweredAdvice)
        a4 == AppendIf(a3, both /\ ~_RE_HAS_QUESTION(text_out), FewQuestionsAdvice)
    IN  AppendIf(a4, both /\ intent /\ ~_RE_NEXT_STEP(text_out), NoNextStepAdvice)

\* a de-duplication that hands the strings back newest first
DedupNewestFirst(advice) ==
    LET kept == { i \in DOMAIN advice : \A j \in 1..(i - 1) : advice[j] # advice[i] }
        rev == [i \in DOMAIN advice |-> advice[Len(advice) + 1 - i]]
    IN  SelectSeq(rev, LAMBDA a : \E i \in kept : advice[i] = a)

\* seen = set(); [a for a in advice if not (a in seen or seen.add(a))]
RECURSIVE DedupFrom(_, _)
DedupFrom(advice, seen) ==
    IF advice = << >> THEN << >>
    ELSE IF Head(advice) \in seen THEN DedupFrom(Tail(advice), seen)
    ELSE << Head(advice) >> \o DedupFrom(Tail(advice), seen \cup { Head(advice) })

Dedup(advice) == DedupFrom(advice, {})

ChatMetrics(tag, ic, oc, fi, fo, frs, li, lo, ui, advice) ==
    [tag |-> tag, inbound_count |-> ic, outbound_count |-> oc,
     first_inbound_at |-> fi, first_outbound_at |-> fo,
     first_response_sec |-> frs, last_inbound_at |-> li,
     last_outbound_at |-> lo, unanswered_inbound |-> ui, advice |-> advice]

RaisedMetrics(e) ==
    ChatMetrics(e, 0, 0, NoneDt, NoneDt, NoneOut, NoneDt, NoneDt, 0, << >>)

PendingMetrics == RaisedMetrics("pending")

compute_chat_metrics(ms, ws, we, slow) ==
    LET inbound == ByDirection(ms, "in")
        outbound == ByDirection(ms, "out")
        inbound_times == ParsedTimes(inbound)
        outbound_times == ParsedTimes(outbound)
        first_inbound_at == PyMin(inbound_times)
        first_outbound_at ==
            IF first_inbound_at.some
            THEN FirstAtOrAfter(PySorted(outbound_times), first_inbound_at)
            ELSE NoneDt
        last_inbound_at == PyMax(inbound_times)
        last_outbound_at == PyMax(outbound_times)
        first_response_sec ==
            IF first_inbound_at.some /\ first_outbound_at.some
            THEN _business_seconds_between(first_inbound_at, first_outbound_at, ws, we)
            ELSE NoneOut
        unanswered_inbound ==
            IF last_inbound_at.some
               /\ (~last_outbound_at.some \/ last_inbound_at.t > last_outbound_at.t)
            THEN CountAfter(inbound_times, last_outbound_at)
            ELSE 0
        advice == Dedup(AdviceRules(inbound, outbound, first_response_sec,
                                    unanswered_inbound, slow))
    IN  IF Mixed(inbound_times) THEN RaisedMetrics("TypeError")
        ELSE IF first_inbound_at.some /\ Mixed(outbound_times) THEN RaisedMetrics("TypeError")
        ELSE IF first_inbound_at.some /\ outbound_times # << >>
                /\ ~Comparable(PySorted(outbound_times)[1], first_inbound_at)
             THEN RaisedMetrics("TypeError")
        ELSE IF Mixed(outbound_times) THEN RaisedMetrics("TypeError")
        ELSE IF first_response_sec.tag \notin {"int", "None"}
             THEN RaisedMetrics(first_response_sec.tag)
        ELSE ChatMetrics("ok", Len(inbound), Len(outbound), first_inbound_at,
                         first_outbound_at, first_response_sec, last_inbound_at,
                         last_outbound_at, unanswered_inbound, advice)

-----------------------------------------------------------------------------
(* The per-chat sort of behavior_digest.main:                               *)
(*     ms.sort(key=lambda x: x.sent_at or datetime.min)                     *)

SortKey(m) == LET d == _dt(m.sentAt) IN IF d.some THEN d ELSE DatetimeMin

RECURSIVE InsertByKey(_, _)
InsertByKey(sorted, m) ==
    IF sorted = << >> THEN << m >>
    ELSE IF SortKey(Head(sorted)).t <= SortKey(m).t
         THEN << Head(sorted) >> \o InsertByKey(Tail(sorted), m)
    ELSE << m >> \o sorted

RECURSIVE StableSortByKey(_)
StableSortByKey(ms) ==
    IF ms = << >> THEN << >>
    ELSE InsertByKey(StableSortByKey(SubSeq(ms, 1, Len(ms) - 1)), ms[Len(ms)])

SortOut(tag, ms) == [tag |-> tag, ms |-> ms]

SortPerChat(ms) ==
    IF \E i, j \in DOMAIN ms : ~Comparable(SortKey(ms[i]), SortKey(ms[j]))
    THEN SortOut("TypeError", << >>)
    ELSE SortOut("ok", StableSortByKey(ms))

-----------------------------------------------------------------------------
(* _pct of aggregate_manager_summary / aggregate_channel_summary.           *)
(* p is given in tenths (5 for 0.5, 9 for 0.9).                             *)

MaxSample == 6
SecValues == {10, 20, 30, 40, 50}
Percentiles == {5, 9}

\* sorted(values) on ints
RECURSIVE InsertInt(_, _)
InsertInt(sorted, x) ==
    IF sorted = << >> THEN << x >>
    ELSE IF Head(sorted) <= x THEN << Head(sorted) >> \o InsertInt(Tail(sorted), x)
    ELSE << x >> \o sorted

\* the values in the order they were appended
UnsortedInts(vs) == vs

RECURSIVE SortedInts(_)
SortedInts(vs) ==
    IF vs = << >> THEN << >>
    ELSE InsertInt(SortedInts(SubSeq(vs, 1, Len(vs) - 1)), vs[Len(vs)])

\* int(math.floor(m / 10)): the rank a truncating conversion would give
PyFloor10(m) == m \div 10

\* int(round(m / 10)): Python rounds halves to the even neighbour
PyRound10(m) ==
    LET q == m \div 10
        r == m % 10
    IN  IF r < 5 THEN q
        ELSE IF r > 5 THEN q + 1
        ELSE IF q % 2 = 0 THEN q ELSE q + 1

_pct(vs, p) ==
    IF vs = << >> THEN NoneOut
    ELSE LET vals == SortedInts(vs)
             k == Max(0, Min(Len(vals) - 1, PyRound10((Len(vals) - 1) * p)))
         IN  IntOut(vals[k + 1])

-----------------------------------------------------------------------------
(* aggregate_manager_summary / aggregate_channel_summary *)

MaxRows == 3
SlowFirstReplySec == 600

EmptyCell == [tag |-> "empty", val |-> 0]
Ratio(n, d) == [tag |-> "ratio", num |-> n, den |-> d]
EmptyRatio == [tag |-> "empty", num |-> 0, den |-> 0]

\* str.lower() on the channel names in use
Lower(c) == IF c = "Telegram" THEN "telegram" ELSE c

\* (r.channel or "").lower() or "unknown"
ChannelKey(r) == IF Lower(r.channel) = "" THEN "unknown" ELSE Lower(r.channel)

\* Python's ordering of the strings used as sort keys
StrRank(x) ==
    CASE x = "" -> 0
      [] x = "Anna" -> 1
      [] x = "telegram" -> 2
      [] x = "unknown" -> 3
      [] OTHER -> 4

NewAcc(id, name, ch) ==
    [manager_id |-> id, manager_name |-> name, channel |-> ch,
     chats |-> 0, inbound |-> 0, outbound |-> 0, unanswered_inbound |-> 0,
     slow_first_reply_chats |-> 0, no_reply_chats |-> 0, responded_chats |-> 0,
     first_reply_secs |-> << >>]

\* the loop body counting every chat with inbound messages as responded
UpdateAccInboundResponded(acc, r) ==
    [acc EXCEPT
        !.chats = @ + 1,
        !.inbound = @ + r.inbound_count,
        !.outbound = @ + r.outbound_count,
        !.unanswered_inbound = @ + r.unanswered_inbound,
        !.no_reply_chats =
            IF r.outbound_count = 0 /\ r.inbound_count > 0 THEN @ + 1 ELSE @,
        !.slow_first_reply_chats =
            IF r.first_response_sec.tag = "int"
               /\ r.first_response_sec.val > SlowFirstReplySec THEN @ + 1 ELSE @,
        !.responded_chats =
            IF r.inbound_count > 0 THEN @ + 1 ELSE @,
        !.first_reply_secs =
            IF r.first_response_sec.tag = "int"
            THEN Append(@, r.first_response_sec.val) ELSE @]

\* the body of the loop "for r in rows" after setdefault
UpdateAcc(acc, r) ==
    [acc EXCEPT
        !.chats = @ + 1,
        !.inbound = @ + r.inbound_count,
        !.outbound = @ + r.outbound_count,
        !.unanswered_inbound = @ + r.unanswered_inbound,
        !.no_reply_chats =
            IF r.outbound_count = 0 /\ r.inbound_count > 0 THEN @ + 1 ELSE @,
        !.slow_first_reply_chats =
            IF r.first_response_sec.tag = "int"
               /\ r.first_response_sec.val > SlowFirstReplySec THEN @ + 1 ELSE @,
        !.responded_chats =
            IF r.first_response_sec.tag = "int" THEN @ + 1 ELSE @,
        !.first_reply_secs =
            IF r.first_response_sec.tag = "int"
            THEN Append(@, r.first_response_sec.val) ELSE @]

\* by_mgr.setdefault(key, {...}) followed by the updates
UpsertMgr(by, r) ==
    IF \E i \in DOMAIN by : by[i].manager_id = r.manager_id
                            /\ by[i].manager_name = r.manager_name
    THEN LET i == CHOOSE i \in DOMAIN by : by[i].manager_id = r.manager_id
                                          /\ by[i].manager_name = r.manager_name
         IN  [by EXCEPT ![i] = UpdateAcc(@, r)]
    ELSE Append(by, UpdateAcc(NewAcc(r.manager_id, r.manager_name, ""), r))

UpsertCh(by, r) ==
    IF \E i \in DOMAIN by : by[i].channel = ChannelKey(r)
    THEN LET i == CHOOSE i \in DOMAIN by : by[i].channel = ChannelKey(r)
         IN  [by EXCEPT ![i] = UpdateAcc(@, r)]
    ELSE Append(by, UpdateAcc(NewAcc("", "", ChannelKey(r)), r))

RECURSIVE FoldMgr(_, _)
FoldMgr(rows, by) ==
    IF rows = << >> THEN by ELSE FoldMgr(Tail(rows), UpsertMgr(by, Head(rows)))

RECURSIVE FoldCh(_, _)
FoldCh(rows, by) ==
    IF rows = << >> THEN by ELSE FoldCh(Tail(rows), UpsertCh(by, Head(rows)))

SummaryRow(acc, median, p90) ==
    [manager_id |-> acc.manager_id, manager_name |-> acc.manager_name,
     channel |-> acc.channel, chats |-> acc.chats, inbound |-> acc.inbound,
     outbound |-> acc.outbound, unanswered_inbound |-> acc.unanswered_inbound,
     slow_first_reply_chats |-> acc.slow_first_reply_chats,
     no_reply_chats |-> acc.no_reply_chats,
     responded_chats |-> acc.responded_chats,
     median_first_reply_sec |-> median, p90_first_reply_sec |-> p90,
     response_rate |-> IF acc.chats # 0 THEN Ratio(acc.responded_chats, acc.chats)
                       ELSE EmptyRatio]

\* median if median is not None else ""
IfNotNone(c) == IF c.tag = "None" THEN EmptyCell ELSE c

\* _pct(vals, p) or "": every falsy value, None and 0 alike, becomes ""
OrEmpty(c) == IF c.tag = "None" \/ (c.tag = "int" /\ c.val = 0) THEN EmptyCell ELSE c

FinishMgr(acc) ==
    SummaryRow(acc, IfNotNone(_pct(acc.first_reply_secs, 5)),
                    IfNotNone(_pct(acc.first_reply_secs, 9)))

FinishCh(acc) ==
    SummaryRow(acc, OrEmpty(_pct(acc.first_reply_secs, 5)),
                    OrEmpty(_pct(acc.first_reply_secs, 9)))

\* sorted(out, key=lambda x: (-int(x["chats"]), name)), stable
SummaryBefore(a, b, name) ==
    \/ a.chats > b.chats
    \/ a.chats = b.chats /\ StrRank(a[name]) <= StrRank(b[name])

RECURSIVE InsertSummary(_, _, _)
InsertSummary(sorted, x, name) ==
    IF sorted = << >> THEN << x >>
    ELSE IF SummaryBefore(Head(sorted), x, name)
         THEN << Head(sorted) >> \o InsertSummary(Tail(sorted), x, name)
    ELSE << x >> \o sorted

RECURSIVE SortSummary(_, _)
SortSummary(out, name) ==
    IF out = << >> THEN << >>
    ELSE InsertSummary(SortSummary(SubSeq(out, 1, Len(out) - 1), name),
                       out[Len(out)], name)

aggregate_manager_summary(rows) ==
    LET by_mgr == FoldMgr(rows, << >>)
        out == [i \in DOMAIN by_mgr |-> FinishMgr(by_mgr[i])]
    IN  SortSummary(out, "manager_name")

aggregate_channel_summary(rows) ==
    LET by_ch == FoldCh(rows, << >>)
        out == [i \in DOMAIN by_ch |-> FinishCh(by_ch[i])]
    IN  SortSummary(out, "channel")

\* ChatMetrics as the aggregators read them
MetricsRow(id, name, ch, ic, oc, ui, frs) ==
    [manager_id |-> id, manager_name |-> name, channel |-> ch,
     inbound_count |-> ic, outbound_count |-> oc, unanswered_inbound |-> ui,
     first_response_sec |-> frs]

Managers == { << "", "" >>, << "7", "Anna" >> }
Channels == { "", "Telegram" }
\* <<inbound_count, outbound_count, unanswered_inbound, first_response_sec>>
ChatShapes == { << 0, 0, 0, NoneOut >>, << 1, 0, 1, NoneOut >>,
                << 1, 1, 0, IntOut(0) >>, << 2, 1, 1, IntOut(700) >> }
MetricsRows == { MetricsRow(m[1], m[2], c, sh[1], sh[2], sh[3], sh[4]) :
                    m \in Managers, c \in Channels, sh \in ChatShapes }

-----------------------------------------------------------------------------
(* Snapshot history and baselines: weekly_digest.main, behavior_digest.main, *)
(* driven in the order of run_all.main.  run_ts and now are in days.         *)

MaxRuns == 5           \* pipeline runs
MaxDay == 10           \* last day a run may start
MaxGap == 4            \* days between two runs
BaselineDays == 6      \* timedelta(days=6)

Sheet(header, rows) == [header |-> header, rows |-> rows]
BlankSheet == Sheet(<< >>, << >>)

ManagerSummaryHeader ==
    << "manager_id", "manager_name", "no_reply_chats", "p90_first_reply_sec" >>
ChannelSummaryHeader == << "channel", "no_reply_chats" >>
BehaviorHeader ==
    << "run_ts", "manager_id", "manager_name", "no_reply_chats", "p90_first_reply_sec" >>

MgrRow(id, name, n, p90) ==
    [manager_id |-> id, manager_name |-> name, no_reply_chats |-> n,
     p90_first_reply_sec |-> p90]
ChRow(ch, n) == [channel |-> ch, no_reply_chats |-> n]

\* What one export leaves in the sheets: nothing, one manager, two managers.
\* p90_first_reply_sec is an empty cell for a manager without a replied chat.
Exported(m, c) == [managers |-> m, channels |-> c]
ExportVariants ==
    { Exported(<< >>, << >>),
      Exported(<< MgrRow("7", "Anna", 1, IntOut(30)) >>, << ChRow("telegram", 1) >>),
      Exported(<< MgrRow("7", "Anna", 2, EmptyCell), MgrRow("", "", 1, IntOut(40)) >>,
               << ChRow("telegram", 2), ChRow("unknown", 1) >>) }

\* [[run_ts] + [r.get(k, "") for k in header[1:]] for r in rows]
Stamp(rows, run_ts) ==
    [i \in DOMAIN rows |-> [k \in {"run_ts"} \cup DOMAIN rows[i] |->
                               IF k = "run_ts" THEN run_ts ELSE rows[i][k]]]

\* ws.clear() wipes every cell of the sheet, rows included
ClearedSheet(ws) == BlankSheet

\* weekly_digest._append_rows
_append_rows(ws, header, rows) ==
    LET ensured == IF ws.header # header
                   THEN Sheet(header, ClearedSheet(ws).rows)
                   ELSE ws
    IN  IF rows = << >> THEN ensured
        ELSE Sheet(ensured.header, ensured.rows \o rows)

\* behavior_digest.main, "Append history": the same steps inline
AppendBehaviorHistory(ws, header, out_rows) ==
    LET created == IF ws = BlankSheet THEN Sheet(header, << >>) ELSE ws
        ensured == IF created.header # header
                   THEN Sheet(header, ClearedSheet(created).rows)
                   ELSE created
    IN  IF out_rows # << >> THEN Sheet(ensured.header, ensured.rows \o out_rows)
        ELSE ensured

\* _read_table: the rows under a header; nothing to read without columns
_read_table(ws) == IF ws.header = << >> THEN << >> ELSE ws.rows

\* ["run_ts"] + (list(rows[0].keys()) if rows else [])
HistoryHeader(ws) ==
    << "run_ts" >> \o (IF _read_table(ws) # << >> THEN ws.header ELSE << >>)

KeyOf(r, key_fields) == [i \in DOMAIN key_fields |-> r[key_fields[i]]]

Best(key, ts, row) == [key |-> key, ts |-> ts, row |-> row]

\* a comparison that would keep the oldest qualifying row instead
Older(ts, cur_ts) == ts < cur_ts

\* if cur is None or ts > cur[0]: best[key] = (ts, r)
Newer(ts, cur_ts) == ts > cur_ts

\* one iteration of "for r in rows" of pick_baseline
PickStep(best, r, key_fields, cutoff) ==
    LET ts == r.run_ts
        key == KeyOf(r, key_fields)
    IN  IF ts > cutoff THEN best
        ELSE IF \E b \in best : b.key = key
        THEN LET cur == CHOOSE b \in best : b.key = key
             IN  IF Newer(ts, cur.ts)
                 THEN (best \ {cur}) \cup {Best(key, ts, r)}
                 ELSE best
        ELSE best \cup {Best(key, ts, r)}

RECURSIVE PickFold(_, _, _, _)
PickFold(rows, best, key_fields, cutoff) ==
    IF rows = << >> THEN best
    ELSE PickFold(Tail(rows), PickStep(best, Head(rows), key_fields, cutoff),
                  key_fields, cutoff)

\* weekly_digest.main.pick_baseline: {k: v[1] for k, v in best.items()}
pick_baseline(rows, key_fields, cutoff) ==
    { [key |-> b.key, row |-> b.row] : b \in PickFold(rows, {}, key_fields, cutoff) }

\* behavior_digest.main: the baseline loop keyed by manager_id
BehaviorStep(best, r, cutoff) ==
    LET ts == r.run_ts
        mid == << r.manager_id >>
    IN  IF ts > cutoff THEN best
        ELSE IF \E b \in best : b.key = mid
        THEN LET cur == CHOOSE b \in best : b.key = mid
             IN  IF ts > cur.ts
                 THEN (best \ {cur}) \cup {Best(mid, ts, r)}
                 ELSE best
        ELSE best \cup {Best(mid, ts, r)}

RECURSIVE BehaviorFold(_, _, _)
BehaviorFold(rows, best, cutoff) ==
    IF rows = << >> THEN best
    ELSE BehaviorFold(Tail(rows), BehaviorStep(best, Head(rows), cutoff), cutoff)

BehaviorBaseline(rows, cutoff) ==
    { [key |-> b.key, row |-> b.row] : b \in BehaviorFold(rows, {}, cutoff) }

-----------------------------------------------------------------------------
(* _redact_text (behavior_digest.py).  Each XEnd(s, i) is the position just *)
(* after the match of the pattern that starts at i, or 0 when none starts   *)
(* there.                                                                   *)

RedactMaxLen == 220
LongDigits == 5
PhoneTail == 7

\* _RE_URL = https?://\S+
UrlEnd(s, i) ==
    LET p == IF StartsWith(s, i, << "h", "t", "t", "p", "s", ":", "/", "/" >>) THEN i + 8
             ELSE IF StartsWith(s, i, << "h", "t", "t", "p", ":", "/", "/" >>) THEN i + 7
             ELSE 0
    IN  IF p = 0 \/ p > Len(s) THEN 0
        ELSE IF IsSpace(s[p]) THEN 0
        ELSE RunEnd(s, p, "nonspace")

\* _RE_EMAIL = \b[\w.\-+]+@[\w.\-]+\.\w+\b
EmailEnd(s, i) ==
    IF ~BoundaryAt(s, i) \/ ~InClass(s[i], "local") THEN 0
    ELSE LET at == RunEnd(s, i, "local")
         IN  IF at > Len(s) THEN 0
             ELSE IF s[at] # "@" THEN 0
             ELSE LET d == RunEnd(s, at + 1, "domain")
                      dots == { k \in (at + 2)..(d - 2) :
                                   s[k] = "." /\ IsWordChar(s[k + 1]) }
                  IN  IF dots = {} THEN 0
                      ELSE RunEnd(s, (CHOOSE k \in dots : \A j \in dots : j <= k) + 1,
                                  "word")

\* _RE_LONG_DIGITS = \b\d{5,}\b
DigitsEnd(s, i) ==
    IF ~BoundaryAt(s, i) \/ ~IsDigit(s[i]) THEN 0
    ELSE LET e == RunEnd(s, i, "digit")
         IN  IF e - i >= LongDigits /\ BoundaryAt(s, e) THEN e ELSE 0

\* _RE_PHONE = \b\+?\d[\d\s\-()]{7,}\b
PhoneEnd(s, i) ==
    IF ~BoundaryAt(s, i) THEN 0
    ELSE LET body == IF s[i] = "+" /\ i + 1 <= Len(s) /\ IsDigit(s[i + 1]) THEN i + 2
                     ELSE IF IsDigit(s[i]) THEN i + 1
                     ELSE 0
         IN  IF body = 0 THEN 0
             ELSE LET m == RunEnd(s, body, "phone")
                      ends == { e \in (body + PhoneTail)..m : BoundaryAt(s, e) }
                  IN  IF ends = {} THEN 0
                      ELSE CHOOSE e \in ends : \A j \in ends : j <= e

MatchEnd(pattern, s, i) ==
    CASE pattern = "url" -> UrlEnd(s, i)
      [] pattern = "email" -> EmailEnd(s, i)
      [] pattern = "digits" -> DigitsEnd(s, i)
      [] pattern = "phone" -> PhoneEnd(s, i)
      [] OTHER -> 0

\* pattern.sub(repl, s): leftmost matches, left to right, not overlapping
RECURSIVE SubFrom(_, _, _, _)
SubFrom(s, i, pattern, repl) ==
    IF i > Len(s) THEN << >>
    ELSE LET e == MatchEnd(pattern, s, i)
         IN  IF e = 0 THEN << s[i] >> \o SubFrom(s, i + 1, pattern, repl)
             ELSE repl \o SubFrom(s, e, pattern, repl)

Sub(pattern, repl, s) == SubFrom(s, 1, pattern, repl)

LinkMark == << "[", "l", "i", "n", "k", "]" >>
EmailMark == << "[", "e", "m", "a", "i", "l", "]" >>
StarMark == << "*", "*", "*" >>

\* s.replace("\n", " ")
ReplaceNewlines(s) == [i \in DOMAIN s |-> IF s[i] = "\n" THEN " " ELSE s[i]]

\* s.strip()
Strip(s) ==
    LET keep == { i \in DOMAIN s : ~IsSpace(s[i]) }
    IN  IF keep = {} THEN << >>
        ELSE SubSeq(s, CHOOSE i \in keep : \A j \in keep : i <= j,
                       CHOOSE i \in keep : \A j \in keep : j <= i)

\* F(v) with v computed once: the statements of a function body run in
\* sequence, each on the value the one before it left
Bind(v, F(_)) == CHOOSE r \in { F(x) : x \in { v } } : TRUE

_redact_text(s, max_len) ==
    Bind(Sub("url", LinkMark, s), LAMBDA s1 :
    Bind(Sub("email", EmailMark, s1), LAMBDA s2 :
    Bind(Sub("digits", StarMark, s2), LAMBDA s3 :
    Bind(Sub("phone", StarMark, s3), LAMBDA s4 :
    Bind(Strip(ReplaceNewlines(s4)), LAMBDA s5 :
         SubSeq(s5, 1, Min(max_len, Len(s5))))))))

-----------------------------------------------------------------------------
(* export_to_sheets.main, the chat loop: what it writes to chats_raw and    *)
(* messages_raw for the columns behavior_digest reads.                      *)

\* a chat of web_chats with its message list after normalisation
WebChat(id, channel, managerId, ms) ==
    [id |-> id, channel |-> channel, managerId |-> managerId, messages |-> ms]

WebMsg(chat_id, direction, sentAt, managerId, messageType, authorType, text) ==
    [chat_id |-> chat_id, direction |-> direction, sentAt |-> sentAt,
     managerId |-> managerId, messageType |-> messageType,
     authorType |-> authorType, text |-> text]

\* users_by_id.get(int(manager_id)): the users of the account
UserName(id) == IF id = "7" THEN "Anna" ELSE ""

\* compute_chat_metrics: manager_id and manager_name of the chat
MetricsManager(chat_manager_id, ms) ==
    LET outs == SelectSeq(ms, LAMBDA m : m.direction = "out" /\ m.managerId # "")
        manager_id == IF chat_manager_id # "" THEN chat_manager_id
                      ELSE IF outs # << >> THEN Head(outs).managerId
                      ELSE ""
        manager_name == IF manager_id = "" THEN ""
                        ELSE IF UserName(manager_id) # "" THEN UserName(manager_id)
                        ELSE manager_id
    IN  [manager_id |-> manager_id, manager_name |-> manager_name]

\* messages_rows.append({...})
MessageRow(cid, m) ==
    [chat_id |-> cid, sentAt |-> m.sentAt, direction |-> m.direction,
     manager_id |-> m.managerId, message_type |-> m.messageType,
     author_type |-> m.authorType, text |-> Strip(ReplaceNewlines(m.text))]

\* chats_rows.append({...})
ChatRow(chat, who, m) ==
    [chat_id |-> chat.id,
     manager_id |-> IF who.manager_id # "" THEN who.manager_id ELSE chat.managerId,
     manager_name |-> who.manager_name,
     inbound_count |-> m.inbound_count, outbound_count |-> m.outbound_count,
     first_response_sec |-> IF m.first_response_sec.tag = "int"
                            THEN m.first_response_sec ELSE EmptyCell,
     unanswered_inbound |-> m.unanswered_inbound]

RECURSIVE Concat(_)
Concat(seqs) == IF seqs = << >> THEN << >> ELSE Head(seqs) \o Concat(Tail(seqs))

\* the ChatMetrics of a chat as the roll-ups read it
MetricsOfChat(chat, who, m) ==
    MetricsRow(who.manager_id, who.manager_name, chat.channel, m.inbound_count,
               m.outbound_count, m.unanswered_inbound, m.first_response_sec)

ExportedTables(chats, ws, we) ==
    LET m == [i \in DOMAIN chats |-> compute_chat_metrics(chats[i].messages, ws, we,
                                                         SlowFirstReplySec)]
        who == [i \in DOMAIN chats |->
                   MetricsManager(chats[i].managerId, chats[i].messages)]
    IN  IF \E i \in DOMAIN chats : m[i].tag # "ok"
        THEN [tag |-> "raised", chats |-> << >>, messages |-> << >>, metrics |-> << >>]
        ELSE [tag |-> "ok",
              chats |-> [i \in DOMAIN chats |-> ChatRow(chats[i], who[i], m[i])],
              messages |-> Concat([i \in DOMAIN chats |->
                            [j \in DOMAIN chats[i].messages |->
                                MessageRow(chats[i].id, chats[i].messages[j])]]),
              metrics |-> [i \in DOMAIN chats |-> MetricsOfChat(chats[i], who[i], m[i])]]

-----------------------------------------------------------------------------
(* behavior_digest.main: the per-manager snapshot rows and the examples.    *)
(* Of the snapshot columns the chat counts, the first-reply percentiles and *)
(* the follow-up gap are modelled.                                          *)

TopK == 3
GoodFirstReplySec == 600
SlowExampleSec == 1800

_to_int(cell) == IF cell.tag = "int" THEN cell ELSE NoneOut

\* (m.author_type or "").lower()
AuthorLower(a) ==
    CASE a = "Customer" -> "customer"
      [] a = "User" -> "user"
      [] a = "Bot" -> "bot"
      [] OTHER -> a

\* (m.message_type or "").upper()
TypeUpper(t) == IF t = "text" THEN "TEXT" ELSE IF t = "system" THEN "SYSTEM" ELSE t

_is_manager_msg(m) == m.direction = "out"
_is_customer_msg(m) == m.direction = "in" /\ AuthorLower(m.author_type) = "customer"
_is_textish(m) ==
    TypeUpper(m.message_type) \in
        { "TEXT", "COMMAND", "ORDER", "PRODUCT", "FILE", "AUDIO", "IMAGE", "" }

\* the words of the keyword patterns that occur in the texts in use
IntentWords == { << "c", "e", "n", "a" >>, << "h", "o", "c", "u" >> }
NextStepWords == { << "o", "f", "o", "r", "m", "i", "m" >>, << "z", "a", "k", "a", "z" >> }
QuestionLeadWords == { << "c", "t", "o" >>, << "k", "a", "k" >> }

\* _KW_INTENT.search(t)
KwIntent(t) == HasWord(t, IntentWords)

\* _KW_NEXTSTEP.search(t): a next-step word or a question mark
KwNextStep(t) == HasWord(t, NextStepWords) \/ CountChar(t, "?") > 0

\* _count_questions
_count_questions(t) ==
    IF t = << >> THEN 0
    ELSE CountChar(t, "?")
         + (IF \E w \in QuestionLeadWords, i \in 1..Len(t) :
                  /\ StartsWith(t, i, w)
                  /\ (i = 1 \/ IsSpace(t[i - 1]))
                  /\ BoundaryAt(t, i + Len(w))
            THEN 1 ELSE 0)

RECURSIVE SumQuestions(_)
SumQuestions(texts) ==
    IF texts = << >> THEN 0
    ELSE _count_questions(Head(texts)) + SumQuestions(Tail(texts))

\* _chat_snippet: the loop over msgs with its two accumulators
RECURSIVE SnippetLoop(_, _, _)
SnippetLoop(msgs, inbound, outbound) ==
    IF msgs = << >> \/ (inbound # << >> /\ outbound # << >>)
    THEN << inbound, outbound >>
    ELSE LET m == Head(msgs)
             inb == IF inbound = << >> /\ _is_customer_msg(m) /\ _is_textish(m)
                       /\ m.text # << >>
                    THEN _redact_text(m.text, RedactMaxLen) ELSE inbound
             outb == IF outbound = << >> /\ _is_manager_msg(m) /\ _is_textish(m)
                        /\ m.text # << >>
                     THEN _redact_text(m.text, RedactMaxLen) ELSE outbound
         IN  SnippetLoop(Tail(msgs), inb, outb)

_chat_snippet(msgs) == SnippetLoop(msgs, << >>, << >>)

\* the chats_raw row of a chat: later rows overwrite earlier ones in the dicts
ChatInfo(chats, cid) ==
    LET idx == { i \in DOMAIN chats : chats[i].chat_id = cid /\ cid # "" }
    IN  IF idx = {} THEN [found |-> FALSE, row |-> << >>]
        ELSE [found |-> TRUE, row |-> chats[CHOOSE i \in idx : \A j \in idx : j <= i]]

\* mgr_name_by_id.get(mid, "")
MgrNameById(chats, mid) ==
    LET idx == { i \in DOMAIN chats : /\ chats[i].manager_id = mid /\ mid # ""
                                      /\ chats[i].manager_name # "" }
    IN  IF idx = {} THEN ""
        ELSE chats[CHOOSE i \in idx : \A j \in idx : j <= i].manager_name

\* the first outbound manager_id wins over chats_raw
ResolveManagerFromMessages(chats, cid, ms) ==
    LET info == ChatInfo(chats, cid)
        outs == SelectSeq(ms, LAMBDA m : _is_manager_msg(m) /\ m.manager_id # "")
        mid == IF outs # << >> THEN Head(outs).manager_id
               ELSE IF info.found THEN info.row.manager_id
               ELSE ""
        mname == MgrNameById(chats, mid)
    IN  IF mid = "" /\ mname = "" THEN [mid |-> "", mname |-> "(unassigned)"]
        ELSE [mid |-> mid, mname |-> mname]

\* the manager of a chat: chats_raw, else the first outbound manager_id,
\* else the unassigned sentinel
ResolveManager(chats, cid, ms) ==
    LET info == ChatInfo(chats, cid)
        mid0 == IF info.found THEN info.row.manager_id ELSE ""
        mname0 == IF info.found /\ info.row.manager_name # ""
                  THEN info.row.manager_name
                  ELSE MgrNameById(chats, mid0)
        outs == SelectSeq(ms, LAMBDA m : _is_manager_msg(m) /\ m.manager_id # "")
        mid == IF mid0 # "" THEN mid0
               ELSE IF outs # << >> THEN Head(outs).manager_id
               ELSE ""
        mname == IF mname0 = "" /\ mid # "" THEN MgrNameById(chats, mid) ELSE mname0
    IN  IF mid = "" /\ mname = "" THEN [mid |-> "", mname |-> "(unassigned)"]
        ELSE [mid |-> mid, mname |-> mname]

\* ensure(mid, name)
NewManagerAgg(mid, name) ==
    [manager_id |-> mid, manager_name |-> name, chats |-> 0,
     responded_chats |-> 0, no_reply_chats |-> 0, follow_gap_hits |-> 0,
     first_reply_values |-> << >>]

Candidate(category, mid, cid, score, sn) ==
    [category |-> category, mid |-> mid, cid |-> cid, score |-> score,
     snippet_in |-> sn[1], snippet_out |-> sn[2]]

\* "Examples candidates": what one chat adds to cand_no_reply, cand_slow,
\* cand_no_next and cand_good
ExampleCandidates(mid, cid, no_reply_flag, fr, high_intent, responded, next_step, questions, sn) ==
    LET has_fr == fr.tag = "int" /\ fr.val > 0
    IN  (IF no_reply_flag
         THEN << Candidate("no_reply", mid, cid, 100, sn) >> ELSE << >>)
        \o (IF has_fr /\ fr.val >= SlowExampleSec
            THEN << Candidate("slow_reply", mid, cid, fr.val, sn) >> ELSE << >>)
        \o (IF high_intent /\ responded /\ ~next_step
            THEN << Candidate("no_next_step_high_intent", mid, cid, 50, sn) >>
            ELSE << >>)
        \o (IF responded /\ next_step /\ questions >= 1 /\ has_fr
               /\ fr.val <= GoodFirstReplySec
            THEN << Candidate("good", mid, cid, GoodFirstReplySec - fr.val, sn) >>
            ELSE << >>)

\* the stamps of the chat's messages that are set
StampOf(m) == _dt(m.sentAt)

\* a manager message at the time of the last customer message closes the gap
FollowGapAtOrAfter(ms) ==
    LET cust == { i \in DOMAIN ms : _is_customer_msg(ms[i]) /\ StampOf(ms[i]).some }
    IN  IF cust = {} THEN FALSE
        ELSE LET last == CHOOSE i \in cust : \A j \in cust : j <= i
             IN  ~\E i \in DOMAIN ms :
                    /\ _is_manager_msg(ms[i])
                    /\ StampOf(ms[i]).some
                    /\ StampOf(ms[i]).t >= StampOf(ms[last]).t

\* follow-up gap: the last customer message has no manager message after it
FollowGap(ms) ==
    LET cust == { i \in DOMAIN ms : _is_customer_msg(ms[i]) /\ StampOf(ms[i]).some }
    IN  IF cust = {} THEN FALSE
        ELSE LET last == CHOOSE i \in cust : \A j \in cust : j <= i
                 last_cust_dt == StampOf(ms[last])
             IN  ~\E i \in DOMAIN ms :
                    /\ _is_manager_msg(ms[i])
                    /\ StampOf(ms[i]).some
                    /\ StampOf(ms[i]).t > last_cust_dt.t

\* one iteration of "for cid, ms in by_chat.items()"
ProcessChat(st, chats, cid, ms) ==
    Bind(ResolveManager(chats, cid, ms), LAMBDA who :
    Bind(ChatInfo(chats, cid), LAMBDA info :
    Bind(_chat_snippet(ms), LAMBDA sn :
    LET known == \E i \in DOMAIN st.agg : st.agg[i].manager_id = who.mid
        agg0 == IF known THEN st.agg
                ELSE Append(st.agg, NewManagerAgg(who.mid, who.mname))
        k == CHOOSE i \in DOMAIN agg0 : agg0[i].manager_id = who.mid
        no_reply_flag == /\ info.found
                         /\ info.row.inbound_count > 0
                         /\ info.row.outbound_count = 0
        responded == \E i \in DOMAIN ms : _is_manager_msg(ms[i]) /\ _is_textish(ms[i])
        fr == IF info.found THEN _to_int(info.row.first_response_sec) ELSE NoneOut
        has_fr == fr.tag = "int" /\ fr.val > 0
        manager_msgs == SelectSeq(ms, LAMBDA m : _is_manager_msg(m) /\ _is_textish(m)
                                                 /\ m.text # << >>)
        customer_msgs == SelectSeq(ms, LAMBDA m : _is_customer_msg(m) /\ _is_textish(m)
                                                  /\ m.text # << >>)
        manager_texts == [i \in DOMAIN manager_msgs |-> manager_msgs[i].text]
        questions == SumQuestions(manager_texts)
        last_out == IF manager_texts = << >> THEN << >>
                    ELSE manager_texts[Len(manager_texts)]
        next_step == last_out # << >> /\ KwNextStep(last_out)
        high_intent == \E i \in DOMAIN customer_msgs : KwIntent(customer_msgs[i].text)
        follow_gap == FollowGap(ms)
        cands == ExampleCandidates(who.mid, cid, no_reply_flag, fr, high_intent,
                                   responded, next_step, questions, sn)
    IN  [agg |-> [agg0 EXCEPT
                    ![k].chats = @ + 1,
                    ![k].no_reply_chats = IF no_reply_flag THEN @ + 1 ELSE @,
                    ![k].responded_chats = IF responded THEN @ + 1 ELSE @,
                    ![k].follow_gap_hits = IF follow_gap THEN @ + 1 ELSE @,
                    ![k].first_reply_values = IF has_fr THEN Append(@, fr.val) ELSE @],
         cands |-> st.cands \o cands])))

\* by_chat: the chat ids of messages_raw in the order they first appear
RECURSIVE ChatIdsInOrder(_, _)
ChatIdsInOrder(rows, seen) ==
    IF rows = << >> THEN << >>
    ELSE IF Head(rows).chat_id = "" \/ Head(rows).chat_id \in seen
         THEN ChatIdsInOrder(Tail(rows), seen)
    ELSE << Head(rows).chat_id >> \o ChatIdsInOrder(Tail(rows), seen \cup { Head(rows).chat_id })

MessagesOfChat(rows, cid) == SelectSeq(rows, LAMBDA r : r.chat_id = cid)

RECURSIVE ChatLoop(_, _, _, _)
ChatLoop(st, chats, by_chat, cids) ==
    IF cids = << >> THEN st
    ELSE Bind(by_chat[Head(cids)], LAMBDA ms :
         Bind(ProcessChat(st, chats, Head(cids), ms), LAMBDA st1 :
              ChatLoop(st1, chats, by_chat, Tail(cids))))

\* "finalize aggregates": one snapshot row per manager
SnapshotRow(a) ==
    LET frs == SortedInts(a.first_reply_values)
    IN  [manager_id |-> a.manager_id, manager_name |-> a.manager_name,
         chats |-> a.chats, responded_chats |-> a.responded_chats,
         no_reply_chats |-> a.no_reply_chats,
         median_first_reply_sec |->
             IF frs = << >> THEN EmptyCell ELSE IntOut(frs[(Len(frs) \div 2) + 1]),
         p90_first_reply_sec |->
             IF frs = << >> THEN EmptyCell
             ELSE IntOut(frs[((Len(frs) * 9) \div 10) + 1]),
         follow_up_gap_rate |->
             IF a.chats # 0 THEN Ratio(a.follow_gap_hits, a.chats) ELSE EmptyRatio]

\* sorted(items, key=lambda x: x[1], reverse=True): stable, highest first
RECURSIVE InsertByScore(_, _)
InsertByScore(sorted, x) ==
    IF sorted = << >> THEN << x >>
    ELSE IF Head(sorted).score >= x.score
         THEN << Head(sorted) >> \o InsertByScore(Tail(sorted), x)
    ELSE << x >> \o sorted

RECURSIVE SortByScore(_)
SortByScore(items) ==
    IF items = << >> THEN << >>
    ELSE InsertByScore(SortByScore(SubSeq(items, 1, Len(items) - 1)), items[Len(items)])

\* the manager ids of a candidate list in dict insertion order
RECURSIVE MidsInOrder(_, _)
MidsInOrder(cands, seen) ==
    IF cands = << >> THEN << >>
    ELSE IF Head(cands).mid \in seen THEN MidsInOrder(Tail(cands), seen)
    ELSE << Head(cands).mid >> \o MidsInOrder(Tail(cands), seen \cup { Head(cands).mid })

\* pick_top without the sort: the first TopK items of each manager
PickFirst(cands) ==
    LET mids == MidsInOrder(cands, {})
    IN  Concat([i \in DOMAIN mids |->
            LET items == SelectSeq(cands, LAMBDA c : c.mid = mids[i])
            IN  SubSeq(items, 1, Min(TopK, Len(items)))])

\* pick_top, flattened in the order the example loops walk it
pick_top(cands) ==
    LET mids == MidsInOrder(cands, {})
    IN  Concat([i \in DOMAIN mids |->
            LET items_sorted == SortByScore(SelectSeq(cands, LAMBDA c : c.mid = mids[i]))
            IN  SubSeq(items_sorted, 1, Min(TopK, Len(items_sorted)))])

ExampleRow(chats, agg, c) ==
    [manager_id |-> c.mid,
     manager_name |-> IF MgrNameById(chats, c.mid) # "" THEN MgrNameById(chats, c.mid)
                      ELSE IF \E i \in DOMAIN agg : agg[i].manager_id = c.mid
                      THEN agg[CHOOSE i \in DOMAIN agg : agg[i].manager_id = c.mid].manager_name
                      ELSE "",
     category |-> c.category, chat_id |-> c.cid,
     snippet_in |-> c.snippet_in, snippet_out |-> c.snippet_out]

ExampleCategories == << "no_reply", "slow_reply", "no_next_step_high_intent", "good" >>

BehaviorOut(tag, out_rows, examples) ==
    [tag |-> tag, out_rows |-> out_rows, examples |-> examples]

behavior_digest_main(chats, msgs_rows) ==
    LET cids == ChatIdsInOrder(msgs_rows, {})
        sorts == [cid \in { cids[i] : i \in DOMAIN cids } |->
                     SortPerChat(MessagesOfChat(msgs_rows, cid))]
    IN  IF \E cid \in DOMAIN sorts : sorts[cid].tag # "ok"
        THEN BehaviorOut("TypeError", << >>, << >>)
        ELSE LET by_chat == [cid \in DOMAIN sorts |-> sorts[cid].ms]
             IN  Bind(ChatLoop([agg |-> << >>, cands |-> << >>], chats, by_chat, cids),
                      LAMBDA st :
                 Bind(Concat([i \in DOMAIN ExampleCategories |->
                          pick_top(SelectSeq(st.cands,
                              LAMBDA c : c.category = ExampleCategories[i]))]),
                      LAMBDA tops :
                      BehaviorOut("ok",
                          [i \in DOMAIN st.agg |-> SnapshotRow(st.agg[i])],
                          [i \in DOMAIN tops |-> ExampleRow(chats, st.agg, tops[i])])))

-----------------------------------------------------------------------------
(* The delta rows of weekly_digest.main and behavior_digest.main.  Of the   *)
(* delta columns those of no_reply_chats and p90_first_reply_sec are        *)
(* modelled; the rate columns go through the same statements.               *)

\* the cell of column k in a sheet row; a count is always written
SheetCell(r, k) == IF k = "no_reply_chats" THEN IntOut(r[k]) ELSE r[k]

\* _to_float: None for None or "", else the number
_to_float(cell) == IF cell.tag = "int" THEN cell ELSE NoneOut

\* b = baseline.get(key): the baseline row of the key, if any
BaselineGet(baseline, key) == { x.row : x \in { b \in baseline : b.key = key } }

\* a lookup that reads a missing baseline as zero
BaseValueOrZero(b, k) ==
    IF b = {} THEN IntOut(0) ELSE _to_int(SheetCell(CHOOSE r \in b : TRUE, k))

\* _to_int(b.get(k)) if b else None
BaseValue(b, k) ==
    IF b = {} THEN NoneOut ELSE _to_int(SheetCell(CHOOSE r \in b : TRUE, k))

\* _to_float(b.get(k)) if b else None
BaseFloat(b, k) ==
    IF b = {} THEN NoneOut ELSE _to_float(SheetCell(CHOOSE r \in b : TRUE, k))

\* (cur - base) if (cur is not None and base is not None) else ""
Delta(cur, base) ==
    IF cur.tag = "int" /\ base.tag = "int" THEN IntOut(cur.val - base.val)
    ELSE EmptyCell

\* weekly_digest.main: one row of digest_rows
ManagerDigestRow(r, baseline, run_ts) ==
    LET b == BaselineGet(baseline, << r.manager_id, r.manager_name >>)
    IN  [run_ts |-> run_ts,
         manager_id |-> r.manager_id,
         manager_name |-> r.manager_name,
         no_reply_chats |-> r.no_reply_chats,
         delta_no_reply_chats |->
             Delta(_to_int(SheetCell(r, "no_reply_chats")), BaseValue(b, "no_reply_chats")),
         p90_first_reply_sec |-> r.p90_first_reply_sec,
         delta_p90_first_reply_sec |->
             Delta(_to_int(SheetCell(r, "p90_first_reply_sec")),
                   BaseValue(b, "p90_first_reply_sec"))]

\* weekly_digest.main: one row of channel_digest_rows
ChannelDigestRow(r, baseline, run_ts) ==
    LET b == BaselineGet(baseline, << r.channel >>)
    IN  [run_ts |-> run_ts,
         channel |-> r.channel,
         no_reply_chats |-> r.no_reply_chats,
         delta_no_reply_chats |->
             Delta(_to_int(SheetCell(r, "no_reply_chats")), BaseValue(b, "no_reply_chats"))]

\* behavior_digest.main: one row of delta_rows; round(cur - base_val, 4)
\* leaves a difference of whole seconds as it is
BehaviorDeltaRow(r, baseline) ==
    LET b == BaselineGet(baseline, << r.manager_id >>)
    IN  [run_ts |-> r.run_ts,
         manager_id |-> r.manager_id,
         manager_name |-> r.manager_name,
         no_reply_chats |-> r.no_reply_chats,
         p90_first_reply_sec |-> r.p90_first_reply_sec,
         delta_p90_first_reply_sec |->
             Delta(_to_float(SheetCell(r, "p90_first_reply_sec")),
                   BaseFloat(b, "p90_first_reply_sec"))]

-----------------------------------------------------------------------------
(* Stage labels: detect_sales_stage (create_source_of_truth.py) and         *)
(* extract_dialog_flow (dialog_templates.py).                               *)

UpperLetters == << "A", "B", "C", "D", "E", "F", "G", "H", "I", "J", "K", "L", "M",
                   "N", "O", "P", "Q", "R", "S", "T", "U", "V", "W", "X", "Y", "Z" >>
LowerLetters == << "a", "b", "c", "d", "e", "f", "g", "h", "i", "j", "k", "l", "m",
                   "n", "o", "p", "q", "r", "s", "t", "u", "v", "w", "x", "y", "z" >>

LowerChar(c) ==
    IF \E i \in DOMAIN UpperLetters : UpperLetters[i] = c
    THEN LowerLetters[CHOOSE i \in DOMAIN UpperLetters : UpperLetters[i] = c]
    ELSE c

\* str.lower()
PyLower(s) == [i \in DOMAIN s |-> LowerChar(s[i])]

\* any(word in text for word in words)
AnyIn(s, words) == \E w \in words : Contains(s, w)

MinStageLen == 3
GreetingZone == 2
ObjectionMinLen == 20
QuestionMaxLen == 100
PresentationMinLen == 15
FlowLimit == 15
FlowMessageLen == 200

greeting_words ==
    { << "z", "d", "r", "a", "v", "s", "t", "v", "u", "j", "t", "e" >>,
      << "z", "d", "r", "a", "v", "s", "t", "v", "u", "j" >>,
      << "d", "o", "b", "r", "y", "j" >>,
      << "p", "r", "i", "v", "e", "t" >>,
      << "d", "e", "n", "x" >>,
      << "v", "e", "c", "e", "r" >>,
      << "u", "t", "r", "o" >>,
      << "d", "o", "b", "r", "o", " ", "p", "o", "j", "a", "l", "o", "v", "a", "t", "x" >>,
      << "r", "a", "d", "y" >>,
      << "p", "o", "m", "o", "g", "u" >>,
      << "c", "e", "m", " ", "m", "o", "g", "u", " ", "p", "o", "m", "o", "c", "x" >>,
      << "k", "a", "k", " ", "d", "e", "l", "a" >> }

closing_words ==
    { << "o", "f", "o", "r", "m", "i", "m" >>,
      << "o", "f", "o", "r", "m", "i", "t", "x" >>,
      << "z", "a", "k", "a", "z" >>,
      << "o", "p", "l", "a", "t" >>,
      << "g", "o", "t", "o", "v", " ", "o", "f", "o", "r", "m", "i", "t", "x" >>,
      << "m", "o", "j", "e", "m", " ", "o", "f", "o", "r", "m", "i", "t", "x" >>,
      << "s", "s", "y", "l", "k", "a" >>,
      << "o", "p", "l", "a", "t", "a" >>,
      << "p", "e", "r", "e", "j", "t", "i", " ", "k", " ", "o", "p", "l", "a", "t", "e" >>,
      << "o", "f", "o", "r", "m", "i", "t", "x", " ", "z", "a", "k", "a", "z" >>,
      << "k", "u", "p", "i", "t", "x" >>,
      << "p", "r", "i", "o", "b", "r", "e", "s", "t", "i" >>,
      << "z", "a", "k", "a", "z", "a", "t", "x" >>,
      << "d", "o", "s", "t", "a", "v", "k", "a" >>,
      << "a", "d", "r", "e", "s", " ", "d", "o", "s", "t", "a", "v", "k", "i" >> }

objection_words ==
    { << "n", "o" >>,
      << "o", "d", "n", "a", "k", "o" >>,
      << "p", "o", "n", "i", "m", "a", "w" >>,
      << "s", "o", "m", "n", "e", "n", "i", "q" >>,
      << "s", "o", "g", "l", "a", "s", "e", "n" >>,
      << "v", "y", " ", "p", "r", "a", "v", "y" >>,
      << "e", "s", "t", "x", " ", "r", "e", "s", "e", "n", "i", "e" >>,
      << "m", "o", "j", "n", "o" >>,
      << "a", "l", "x", "t", "e", "r", "n", "a", "t", "i", "v", "a" >>,
      << "v", "a", "r", "i", "a", "n", "t" >>,
      << "e", "s", "l", "i" >>,
      << "h", "o", "t", "q" >> }

question_words ==
    { << "k", "a", "k", "o", "j" >>,
      << "k", "a", "k", "a", "q" >>,
      << "k", "a", "k", "i", "e" >>,
      << "s", "k", "o", "l", "x", "k", "o" >>,
      << "k", "o", "g", "d", "a" >>,
      << "g", "d", "e" >>,
      << "d", "l", "q", " ", "k", "o", "g", "o" >>,
      << "c", "t", "o", " ", "v", "a", "s", " ", "i", "n", "t", "e", "r", "e", "s", "u", "e", "t" >>,
      << "c", "t", "o", " ", "n", "u", "j", "n", "o" >>,
      << "r", "a", "s", "s", "k", "a", "j", "i", "t", "e" >>,
      << "p", "o", "d", "s", "k", "a", "j", "i", "t", "e" >>,
      << "k", "a", "k" >>,
      << "p", "o", "c", "e", "m", "u" >>,
      << "z", "a", "c", "e", "m" >>,
      << "k", "a", "k", "o", "g", "o" >>,
      << "k", "a", "k", "u", "w" >>,
      << "k", "a", "k", "i", "h" >> }

presentation_words ==
    { << "u", " ", "n", "a", "s" >>,
      << "m", "y", " ", "p", "r", "e", "d", "l", "a", "g", "a", "e", "m" >>,
      << "e", "t", "o" >>,
      << "h", "a", "r", "a", "k", "t", "e", "r", "i", "s", "t", "i", "k", "i" >>,
      << "p", "r", "e", "i", "m", "u", "s", "e", "s", "t", "v", "a" >>,
      << "p", "o", "d", "h", "o", "d", "i", "t", " ", "d", "l", "q" >>,
      << "i", "d", "e", "a", "l", "x", "n", "o", " ", "d", "l", "q" >>,
      << "r", "e", "k", "o", "m", "e", "n", "d", "u", "w" >>,
      << "s", "o", "v", "e", "t", "u", "w" >>,
      << "s", "o", "s", "t", "a", "v" >>,
      << "m", "a", "t", "e", "r", "i", "a", "l" >>,
      << "r", "a", "z", "m", "e", "r" >>,
      << "c", "v", "e", "t" >>,
      << "c", "e", "n", "a" >>,
      << "s", "t", "o", "i", "m", "o", "s", "t", "x" >>,
      << "m", "o", "d", "e", "l", "x" >> }

\* position_in_chat <= 2 or (total_messages > 0 and
\* position_in_chat / total_messages < 0.1)
InGreetingZone(position, total) ==
    \/ position <= GreetingZone
    \/ (total > 0 /\ position * 10 < total)

IsGreeting(t) == AnyIn(t, greeting_words)
IsClosing(t) == AnyIn(t, closing_words)
IsObjection(t) == AnyIn(t, objection_words) /\ Len(t) > ObjectionMinLen
IsQuestion(t) ==
    /\ Contains(t, << "?" >>)
    /\ (AnyIn(t, question_words) \/ Len(t) < QuestionMaxLen)
IsPresentation(t) == AnyIn(t, presentation_words) /\ Len(t) > PresentationMinLen

detect_sales_stage(text, position, total) ==
    LET text_lower == Strip(PyLower(text))
    IN  IF Len(text_lower) < MinStageLen THEN "None"
        ELSE IF InGreetingZone(position, total) /\ IsGreeting(text_lower)
             THEN "greeting"
        ELSE IF IsClosing(text_lower) THEN "closing"
        ELSE IF IsObjection(text_lower) THEN "objections_handling"
        ELSE IF IsQuestion(text_lower) THEN "needs_identification"
        ELSE IF IsPresentation(text_lower) THEN "presentation"
        ELSE "None"

flow_situation_words ==
    { << "k", "a", "k", "o", "j" >>,
      << "k", "a", "k", "a", "q" >>,
      << "s", "k", "o", "l", "x", "k", "o" >>,
      << "k", "o", "g", "d", "a" >>,
      << "g", "d", "e" >>,
      << "d", "l", "q", " ", "k", "o", "g", "o" >> }

flow_problem_words ==
    { << "n", "e", " ", "u", "s", "t", "r", "a", "i", "v", "a", "e", "t" >>,
      << "p", "r", "o", "b", "l", "e", "m" >>,
      << "s", "l", "o", "j", "n", "o", "s", "t" >>,
      << "n", "e", " ", "n", "r", "a", "v", "i", "t", "s", "q" >> }

flow_implication_words ==
    { << "p", "r", "i", "v", "o", "d", "i", "t" >>,
      << "v", "l", "i", "q", "e", "t" >>,
      << "b", "u", "d", "e", "t", " ", "e", "s", "l", "i" >> }

flow_need_payoff_words ==
    { << "p", "o", "m", "o", "j", "e", "t" >>,
      << "d", "a", "s", "t" >>,
      << "z", "a", "c", "e", "m" >>,
      << "v", "y", "g", "o", "d", "a" >> }

flow_closing_words ==
    { << "o", "f", "o", "r", "m", "i", "m" >>,
      << "z", "a", "k", "a", "z" >>,
      << "s", "s", "y", "l", "k", "a" >>,
      << "o", "p", "l", "a", "t" >> }

\* the if/elif chain of extract_dialog_flow; i counts from 0
FlowStage(i, msg_lower) ==
    IF i = 0 THEN "greeting"
    ELSE IF AnyIn(msg_lower, flow_situation_words) THEN "situation"
    ELSE IF AnyIn(msg_lower, flow_problem_words) THEN "problem"
    ELSE IF AnyIn(msg_lower, flow_implication_words) THEN "implication"
    ELSE IF AnyIn(msg_lower, flow_need_payoff_words) THEN "need_payoff"
    ELSE IF AnyIn(msg_lower, flow_closing_words) THEN "closing"
    ELSE "unknown"

extract_dialog_flow(msgs) ==
    [i \in 1..Min(Len(msgs), FlowLimit) |->
        [step |-> i,
         stage |-> FlowStage(i - 1, PyLower(msgs[i])),
         message |-> SubSeq(msgs[i], 1, Min(Len(msgs[i]), FlowMessageLen))]]

-----------------------------------------------------------------------------
(* spin_analysis.py: analyze_chat_spin and aggregate_manager_spin.  The      *)
(* alternatives of a pattern are listed in the order of the pattern.         *)

spin_s_words ==
    << << "k", "a", "k", "o", "j" >>,
       << "k", "a", "k", "a", "q" >>,
       << "k", "a", "k", "i", "e" >>,
       << "k", "a", "k" >>,
       << "s", "k", "o", "l", "x", "k", "o" >>,
       << "k", "o", "g", "d", "a" >>,
       << "k", "u", "d", "a" >>,
       << "g", "d", "e" >>,
       << "o", "t", "k", "u", "d", "a" >>,
       << "r", "a", "z", "m", "e", "r" >>,
       << "r", "o", "s", "t" >>,
       << "v", "e", "s" >>,
       << "p", "a", "r", "a", "m", "e", "t", "r" >>,
       << "h", "a", "r", "a", "k", "t", "e", "r", "i", "s", "t", "i", "k" >>,
       << "d", "l", "q", " ", "k", "o", "g", "o" >>,
       << "k", "o", "m", "u" >>,
       << "k", "t", "o" >>,
       << "k", "a", "k", " ", "c", "a", "s", "t", "o" >>,
       << "k", "a", "k", " ", "d", "o", "l", "g", "o" >>,
       << "k", "a", "k", " ", "d", "a", "v", "n", "o" >>,
       << "k", "a", "k", "o", "j", " ", "u", " ", "v", "a", "s" >>,
       << "k", "a", "k", "a", "q", " ", "u", " ", "v", "a", "s" >>,
       << "k", "a", "k", "i", "e", " ", "u", " ", "v", "a", "s" >>,
       << "r", "a", "s", "s", "k", "a", "j", "i", "t", "e" >>,
       << "p", "o", "d", "s", "k", "a", "j", "i", "t", "e" >>,
       << "u", "t", "o", "c", "n", "i", "t", "e" >> >>

spin_p_words ==
    << << "c", "t", "o", " ", "n", "e", " ", "u", "s", "t", "r", "a", "i", "v", "a", "e", "t" >>,
       << "c", "t", "o", " ", "n", "e", " ", "n", "r", "a", "v", "i", "t", "s", "q" >>,
       << "c", "t", "o", " ", "n", "e", " ", "p", "o", "d", "h", "o", "d", "i", "t" >>,
       << "k", "a", "k", "i", "e", " ", "s", "l", "o", "j", "n", "o", "s", "t", "i" >>,
       << "k", "a", "k", "i", "e", " ", "p", "r", "o", "b", "l", "e", "m", "y" >>,
       << "k", "a", "k", "i", "e", " ", "t", "r", "u", "d", "n", "o", "s", "t", "i" >>,
       << "c", "t", "o", " ", "b", "e", "s", "p", "o", "k", "o", "i", "t" >>,
       << "c", "t", "o", " ", "v", "o", "l", "n", "u", "e", "t" >>,
       << "c", "t", "o", " ", "t", "r", "e", "v", "o", "j", "i", "t" >>,
       << "n", "e", " ", "u", "s", "t", "r", "a", "i", "v", "a", "e", "t" >>,
       << "n", "e", " ", "p", "o", "d", "h", "o", "d", "i", "t" >>,
       << "n", "e", " ", "n", "r", "a", "v", "i", "t", "s", "q" >>,
       << "p", "r", "o", "b", "l", "e", "m", "a" >>,
       << "s", "l", "o", "j", "n", "o", "s", "t", "x" >>,
       << "t", "r", "u", "d", "n", "o", "s", "t", "x" >>,
       << "n", "e", "u", "d", "o", "b", "s", "t", "v", "o" >>,
       << "c", "t", "o", " ", "m", "e", "s", "a", "e", "t" >>,
       << "c", "t", "o", " ", "m", "e", "s", "a", "l", "o" >>,
       << "c", "t", "o", " ", "m", "e", "s", "a", "l", "o", " ", "b", "y" >>,
       << "n", "e", " ", "h", "v", "a", "t", "a", "e", "t" >>,
       << "n", "e", "d", "o", "s", "t", "a", "t", "o", "k" >>,
       << "n", "e", " ", "h", "v", "a", "t", "a", "l", "o" >> >>

spin_i_words ==
    << << "k", " ", "c", "e", "m", "u", " ", "e", "t", "o", " ", "p", "r", "i", "v", "o", "d", "i", "t" >>,
       << "k", " ", "c", "e", "m", "u", " ", "p", "r", "i", "v", "o", "d", "i", "t" >>,
       << "c", "t", "o", " ", "e", "t", "o", " ", "z", "n", "a", "c", "i", "t" >>,
       << "k", "a", "k", " ", "e", "t", "o", " ", "v", "l", "i", "q", "e", "t" >>,
       << "k", "a", "k", " ", "v", "l", "i", "q", "e", "t" >>,
       << "k", "a", "k", " ", "e", "t", "o", " ", "s", "k", "a", "z", "y", "v", "a", "e", "t", "s", "q" >>,
       << "c", "t", "o", " ", "b", "u", "d", "e", "t", " ", "e", "s", "l", "i" >>,
       << "c", "t", "o", " ", "b", "u", "d", "e", "t", " ", "k", "o", "g", "d", "a" >>,
       << "c", "t", "o", " ", "p", "r", "o", "i", "z", "o", "j", "d", "e", "t" >>,
       << "p", "o", "s", "l", "e", "d", "s", "t", "v", "i", "q" >>,
       << "v", "l", "i", "q", "n", "i", "e" >>,
       << "r", "e", "z", "u", "l", "x", "t", "a", "t" >>,
       << "k", "a", "k", " ", "e", "t", "o", " ", "o", "t", "r", "a", "j", "a", "e", "t", "s", "q" >>,
       << "k", "a", "k", " ", "o", "t", "r", "a", "j", "a", "e", "t", "s", "q" >>,
       << "i", "z", "-", "z", "a", " ", "e", "t", "o", "g", "o" >>,
       << "p", "o", "e", "t", "o", "m", "u" >>,
       << "v", " ", "r", "e", "z", "u", "l", "x", "t", "a", "t", "e" >>,
       << "e", "t", "o", " ", "o", "z", "n", "a", "c", "a", "e", "t" >>,
       << "e", "t", "o", " ", "z", "n", "a", "c", "i", "t" >>,
       << "e", "t", "o", " ", "p", "r", "i", "v", "e", "d", "e", "t" >> >>

spin_n_words ==
    << << "k", "a", "k", " ", "e", "t", "o", " ", "p", "o", "m", "o", "j", "e", "t" >>,
       << "k", "a", "k", " ", "p", "o", "m", "o", "j", "e", "t" >>,
       << "c", "t", "o", " ", "e", "t", "o", " ", "d", "a", "s", "t" >>,
       << "c", "t", "o", " ", "d", "a", "s", "t" >>,
       << "z", "a", "c", "e", "m", " ", "e", "t", "o", " ", "n", "u", "j", "n", "o" >>,
       << "z", "a", "c", "e", "m", " ", "n", "u", "j", "n", "o" >>,
       << "d", "l", "q", " ", "c", "e", "g", "o" >>,
       << "v", "y", "g", "o", "d", "a" >>,
       << "p", "r", "e", "i", "m", "u", "s", "e", "s", "t", "v", "o" >>,
       << "p", "o", "l", "x", "z", "a" >>,
       << "p", "o", "l", "e", "z", "n", "o", "s", "t", "x" >>,
       << "e", "t", "o", " ", "p", "o", "z", "v", "o", "l", "i", "t" >>,
       << "e", "t", "o", " ", "d", "a", "s", "t", " ", "v", "o", "z", "m", "o", "j", "n", "o", "s", "t", "x" >>,
       << "e", "t", "o", " ", "p", "o", "m", "o", "j", "e", "t" >>,
       << "v", "a", "j", "n", "o", " ", "d", "l", "q", " ", "v", "a", "s" >>,
       << "v", "a", "j", "n", "o", " ", "l", "i" >>,
       << "n", "u", "j", "n", "o", " ", "l", "i" >>,
       << "b", "u", "d", "e", "t", " ", "u", "d", "o", "b", "n", "e", "e" >>,
       << "b", "u", "d", "e", "t", " ", "l", "u", "c", "s", "e" >>,
       << "b", "u", "d", "e", "t", " ", "p", "r", "o", "s", "e" >>,
       << "r", "e", "s", "i", "t", " ", "p", "r", "o", "b", "l", "e", "m", "u" >>,
       << "r", "e", "s", "i", "t", " ", "v", "o", "p", "r", "o", "s" >>,
       << "p", "o", "m", "o", "j", "e", "t", " ", "r", "e", "s", "i", "t", "x" >>,
       << "s", "e", "k", "o", "n", "o", "m", "i", "t" >>,
       << "u", "p", "r", "o", "s", "t", "i", "t" >>,
       << "u", "s", "k", "o", "r", "i", "t" >>,
       << "u", "l", "u", "c", "s", "i", "t" >> >>

SpinStages == 4

\* " ".join(texts)
RECURSIVE JoinSpace(_)
JoinSpace(texts) ==
    IF texts = << >> THEN << >>
    ELSE IF Len(texts) = 1 THEN texts[1]
    ELSE texts[1] \o << " " >> \o JoinSpace(Tail(texts))

\* the end of the first alternative that matches at i before a \b, or 0
RECURSIVE AltEnd(_, _, _, _)
AltEnd(s, i, words, k) ==
    IF k > Len(words) THEN 0
    ELSE IF /\ s[i] = words[k][1]
            /\ StartsWith(s, i, words[k])
            /\ BoundaryAt(s, i + Len(words[k]))
         THEN i + Len(words[k])
    ELSE AltEnd(s, i, words, k + 1)

\* len(pattern.findall(text)): the leftmost matches, none overlapping
RECURSIVE CountMatches(_, _, _)
CountMatches(s, i, words) ==
    IF i > Len(s) THEN 0
    ELSE LET e == IF BoundaryAt(s, i) THEN AltEnd(s, i, words, 1) ELSE 0
         IN  IF e > 0 THEN 1 + CountMatches(s, e, words)
             ELSE CountMatches(s, i + 1, words)

_count_spin_stage(text, words) ==
    IF text = << >> THEN 0 ELSE CountMatches(PyLower(text), 1, words)

\* "?" in text if text else False
_has_question_mark(text) == text # << >> /\ Contains(text, << "?" >>)

\* a flag that asks for two mentions of the stage
HasStageTwice(count) == count > 1

\* has_situation = s > 0, and so on
HasStage(count) == count > 0

BoolInt(b) == IF b THEN 1 ELSE 0

\* stages_used / 4.0 if stages_used > 0 else 0.0
SpinCompleteness(stages_used) ==
    IF stages_used > 0 THEN Ratio(stages_used, SpinStages) ELSE Ratio(0, 1)

analyze_chat_spin(chat_id, msgs, manager_id, manager_name) ==
    LET manager_messages ==
            SelectSeq(msgs, LAMBDA m : m.direction = "out" /\ m.manager_id = manager_id)
        all_text == JoinSpace([i \in DOMAIN manager_messages |-> manager_messages[i].text])
        s == _count_spin_stage(all_text, spin_s_words)
        p == _count_spin_stage(all_text, spin_p_words)
        i == _count_spin_stage(all_text, spin_i_words)
        n == _count_spin_stage(all_text, spin_n_words)
        stages_used == BoolInt(HasStage(s)) + BoolInt(HasStage(p))
                       + BoolInt(HasStage(i)) + BoolInt(HasStage(n))
    IN  [chat_id |-> chat_id, manager_id |-> manager_id, manager_name |-> manager_name,
         total_messages |-> Len(manager_messages),
         total_questions |->
             Len(SelectSeq(manager_messages, LAMBDA m : _has_question_mark(m.text))),
         spin_s_count |-> s, spin_p_count |-> p, spin_i_count |-> i, spin_n_count |-> n,
         has_situation |-> HasStage(s), has_problem |-> HasStage(p),
         has_implication |-> HasStage(i), has_need_payoff |-> HasStage(n),
         spin_completeness |-> SpinCompleteness(stages_used)]

\* m.spin_completeness == 1.0
IsFullSpin(m) == m.spin_completeness.num = m.spin_completeness.den

\* the keys of by_manager in the order of their first chat
RECURSIVE SpinKeys(_, _)
SpinKeys(chat_metrics, seen) ==
    IF chat_metrics = << >> THEN << >>
    ELSE LET key == << Head(chat_metrics).manager_id, Head(chat_metrics).manager_name >>
         IN  IF key \in seen THEN SpinKeys(Tail(chat_metrics), seen)
             ELSE << key >> \o SpinKeys(Tail(chat_metrics), seen \cup { key })

\* one entry of the result of aggregate_manager_spin
SpinManagerRow(key, ms) ==
    [manager_id |-> key[1], manager_name |-> key[2],
     total_chats |-> Len(ms),
     chats_with_s |-> Len(SelectSeq(ms, LAMBDA m : m.has_situation)),
     chats_with_p |-> Len(SelectSeq(ms, LAMBDA m : m.has_problem)),
     chats_with_i |-> Len(SelectSeq(ms, LAMBDA m : m.has_implication)),
     chats_with_n |-> Len(SelectSeq(ms, LAMBDA m : m.has_need_payoff)),
     full_spin_chats |-> Len(SelectSeq(ms, LAMBDA m : IsFullSpin(m)))]

aggregate_manager_spin(chat_metrics) ==
    LET keys == SpinKeys(chat_metrics, {})
    IN  [k \in DOMAIN keys |->
            SpinManagerRow(keys[k],
                SelectSeq(chat_metrics,
                          LAMBDA m : << m.manager_id, m.manager_name >> = keys[k]))]

-----------------------------------------------------------------------------
(* Idle values of the variable groups a specification does not use. *)

ClockIdle ==
    /\ start_dt = NoneDt /\ end_dt = NoneDt
    /\ work_start = 1 /\ work_end = 3
    /\ elapsed = Pending

ChatIdle ==
    /\ messages = << >>
    /\ metrics = PendingMetrics
    /\ sorted_ms = SortOut("pending", << >>)

PctIdle == values = << >> /\ pct_p = 5 /\ pct_out = Pending

AggIdle ==
    /\ metrics_rows = << >> /\ agg_pc = "collect"
    /\ manager_summary = << >> /\ channel_summary = << >>

DigestIdle ==
    /\ now = 0 /\ pc = "export" /\ runs = 0
    /\ summary_sheet = BlankSheet /\ channel_sheet = BlankSheet
    /\ chats_raw = << >>
    /\ hist_mgr = BlankSheet /\ hist_ch = BlankSheet /\ hist_beh = BlankSheet
    /\ digest_rows = << >> /\ channel_digest_rows = << >> /\ delta_rows = << >>
    /\ mgr_baseline = {} /\ ch_baseline = {} /\ beh_baseline = {}

BehIdle ==
    /\ web_chats = << >>
    /\ chats_table = << >>
    /\ messages_table = << >>
    /\ behavior_out = BehaviorOut("idle", << >>, << >>)

AdviceIdle == slow_first_reply_sec = SlowFirstReplySec

StageIdle ==
    /\ stage_text = << >> /\ position_in_chat = 0 /\ total_messages = 0
    /\ stage = "idle"
    /\ flow_messages = << >> /\ flow = << >> /\ flow_pc = "idle"

SpinIdle == spin_metrics = << >> /\ spin_agg = << >> /\ spin_pc = "idle"

TopIdle == cand_chats = << >> /\ top_examples = << >> /\ top_pc = "idle"

ExportIdle ==
    /\ pending_chats = << >> /\ batch_size = 1 /\ processed = 0 /\ batch_num = 0
    /\ chats_rows = << >> /\ messages_rows = << >>
    /\ chats_ws = << >> /\ messages_ws = << >> /\ export_pc = "idle"

HttpIdle ==
    /\ http_client = "" /\ max_retries = 0 /\ attempt = 0
    /\ http_log = << >> /\ http_result = "idle"

MoreIdle == TopIdle /\ ExportIdle /\ HttpIdle

RestIdle == AdviceIdle /\ StageIdle /\ SpinIdle /\ MoreIdle

ExtraIdle == BehIdle /\ RestIdle

-----------------------------------------------------------------------------
(* SpecClock: _business_seconds_between over bounded inputs. *)

ClockStamps == { Dt(t, a) : t \in 0..(MaxDays * DayLen - 1), a \in BOOLEAN }

InitClock ==
    /\ start_dt \in ClockStamps
    /\ end_dt \in ClockStamps
    /\ work_start \in 0..(DayLen - 1)
    /\ work_end \in 0..(DayLen - 1)
    /\ elapsed = Pending
    /\ ChatIdle /\ PctIdle /\ AggIdle /\ DigestIdle /\ ExtraIdle

BusinessSecondsBetween ==
    /\ start_dt.some /\ end_dt.some
    /\ elapsed = Pending
    /\ elapsed' = _business_seconds_between(start_dt, end_dt, work_start, work_end)
    /\ UNCHANGED << start_dt, end_dt, work_start, work_end, chatVars, pctVars,
                    aggVars, digestVars, extraVars >>

-----------------------------------------------------------------------------
(* SpecMetrics: compute_chat_metrics over bounded chats with naive stamps. *)

NaiveStamps == { RawEmpty, RawGarbage } \cup { RawIso(t, FALSE) : t \in 0..MaxT }
NaiveMsgs == { Msg(d, v) : d \in {"in", "out"}, v \in NaiveStamps }
WorkWindows == { << 1, 3 >>, << 0, 2 >>, << 3, 1 >>, << 2, 2 >> }

InitMetrics ==
    /\ messages \in BoundedSeq(NaiveMsgs, MaxMsgs)
    /\ \E w \in WorkWindows : work_start = w[1] /\ work_end = w[2]
    /\ metrics = PendingMetrics
    /\ sorted_ms = SortOut("pending", << >>)
    /\ start_dt = NoneDt /\ end_dt = NoneDt /\ elapsed = Pending
    /\ PctIdle /\ AggIdle /\ DigestIdle /\ ExtraIdle

ComputeChatMetrics ==
    /\ metrics.tag = "pending"
    /\ metrics' = compute_chat_metrics(messages, work_start, work_end,
                                       slow_first_reply_sec)
    /\ UNCHANGED << clockVars, messages, sorted_ms, pctVars, aggVars, digestVars, extraVars >>

-----------------------------------------------------------------------------
(* SpecOrdering: chats that mix missing, naive and aware stamps, through    *)
(* compute_chat_metrics and the per-chat sort of behavior_digest.           *)

TzStamps == { RawEmpty, RawGarbage, RawIso(1, FALSE), RawIso(1, TRUE), RawIso(2, TRUE) }
TzMsgs == { Msg(d, v) : d \in {"in", "out"}, v \in TzStamps }

InitOrdering ==
    /\ messages \in BoundedSeq(TzMsgs, MaxMsgs)
    /\ work_start = 1 /\ work_end = 3
    /\ metrics = PendingMetrics
    /\ sorted_ms = SortOut("pending", << >>)
    /\ start_dt = NoneDt /\ end_dt = NoneDt /\ elapsed = Pending
    /\ PctIdle /\ AggIdle /\ DigestIdle /\ ExtraIdle

SortChatMessages ==
    /\ sorted_ms.tag = "pending"
    /\ sorted_ms' = SortPerChat(messages)
    /\ UNCHANGED << clockVars, messages, metrics, pctVars, aggVars, digestVars, extraVars >>

-----------------------------------------------------------------------------
(* SpecPct: _pct over bounded samples. *)

InitPct ==
    /\ values \in BoundedSeq(SecValues, MaxSample)
    /\ pct_p \in Percentiles
    /\ pct_out = Pending
    /\ ClockIdle /\ ChatIdle /\ AggIdle /\ DigestIdle /\ ExtraIdle

ApplyPct ==
    /\ pct_out = Pending
    /\ pct_out' = _pct(values, pct_p)
    /\ UNCHANGED << values, pct_p, clockVars, chatVars, aggVars, digestVars, extraVars >>

-----------------------------------------------------------------------------
(* SpecAgg: the roll-ups of export_to_sheets.main over bounded ChatMetrics. *)

\* export_to_sheets.main: metrics_rows.append(metrics)
AppendMetrics(r) ==
    /\ agg_pc = "collect"
    /\ Len(metrics_rows) < MaxRows
    /\ metrics_rows' = Append(metrics_rows, r)
    /\ UNCHANGED << agg_pc, manager_summary, channel_summary, clockVars, chatVars,
                    pctVars, digestVars, extraVars >>

\* export_to_sheets.main: the two roll-ups after the chat loop
Aggregate ==
    /\ agg_pc = "collect"
    /\ agg_pc' = "done"
    /\ manager_summary' = aggregate_manager_summary(metrics_rows)
    /\ channel_summary' = aggregate_channel_summary(metrics_rows)
    /\ UNCHANGED << metrics_rows, clockVars, chatVars, pctVars, digestVars, extraVars >>

-----------------------------------------------------------------------------
(* Spec: the pipeline of run_all.main over bounded exports. *)

\* run_all.main step 1: export_to_sheets rewrites the raw and summary sheets
ExportToSheets(gap, exported) ==
    /\ pc = "export"
    /\ runs < MaxRuns
    /\ now + gap <= MaxDay
    /\ now' = now + gap
    /\ runs' = runs + 1
    /\ chats_raw' = exported.managers
    /\ summary_sheet' = Sheet(ManagerSummaryHeader, exported.managers)
    /\ channel_sheet' = Sheet(ChannelSummaryHeader, exported.channels)
    /\ pc' = "behavior_digest"
    /\ UNCHANGED << hist_mgr, hist_ch, hist_beh, mgr_baseline, ch_baseline,
                    beh_baseline, digest_rows, channel_digest_rows, delta_rows,
                    clockVars, chatVars, pctVars, aggVars, extraVars >>

\* run_all.main step 3: behavior_digest.main
BehaviorDigest ==
    /\ pc = "behavior_digest"
    /\ LET run_ts == now
           out_rows == Stamp(chats_raw, run_ts)
           hist == AppendBehaviorHistory(hist_beh, BehaviorHeader, out_rows)
           baseline == BehaviorBaseline(_read_table(hist), run_ts - BaselineDays)
       IN  /\ hist_beh' = hist
           /\ beh_baseline' = baseline
           /\ delta_rows' = [i \in DOMAIN out_rows |->
                                 BehaviorDeltaRow(out_rows[i], baseline)]
    /\ pc' = "weekly_digest"
    /\ UNCHANGED << now, runs, chats_raw, summary_sheet, channel_sheet, hist_mgr,
                    hist_ch, mgr_baseline, ch_baseline, digest_rows,
                    channel_digest_rows, clockVars, chatVars,
                    pctVars, aggVars, extraVars >>

\* run_all.main step 4: weekly_digest.main
WeeklyDigest ==
    /\ pc = "weekly_digest"
    /\ LET run_ts == now
           mgr_rows == _read_table(summary_sheet)
           ch_rows == _read_table(channel_sheet)
           hm == _append_rows(hist_mgr, HistoryHeader(summary_sheet), Stamp(mgr_rows, run_ts))
           hc == _append_rows(hist_ch, HistoryHeader(channel_sheet), Stamp(ch_rows, run_ts))
           cutoff == run_ts - BaselineDays
           mb == pick_baseline(_read_table(hm), << "manager_id", "manager_name" >>, cutoff)
           cb == pick_baseline(_read_table(hc), << "channel" >>, cutoff)
       IN  /\ hist_mgr' = hm
           /\ hist_ch' = hc
           /\ mgr_baseline' = mb
           /\ ch_baseline' = cb
           /\ digest_rows' = [i \in DOMAIN mgr_rows |->
                                  ManagerDigestRow(mgr_rows[i], mb, run_ts)]
           /\ channel_digest_rows' = [i \in DOMAIN ch_rows |->
                                          ChannelDigestRow(ch_rows[i], cb, run_ts)]
    /\ pc' = "export"
    /\ UNCHANGED << now, runs, chats_raw, summary_sheet, channel_sheet, hist_beh,
                    beh_baseline, delta_rows, clockVars, chatVars, pctVars, aggVars, extraVars >>

-----------------------------------------------------------------------------
(* SpecBehavior: one export followed by behavior_digest.main, over bounded  *)
(* chats.                                                                   *)

MaxBehMsgs == 3        \* messages of one export, over all chats

ChatIds == << "c1", "c2" >>
ChatChannels == << "Telegram", "" >>

TextPrice == << "c", "e", "n", "a" >>
TextOrderNo == << "i", "d", "1", "2", "3", "4", "5" >>
TextNextStep == << "o", "f", "o", "r", "m", "i", "m", "?" >>
TextPlain == << "o", "k" >>

\* <<direction, managerId, messageType, authorType, text>>
MessageKinds ==
    { << "in", "", "TEXT", "Customer", TextPrice >>,
      << "in", "", "TEXT", "Customer", TextOrderNo >>,
      << "out", "7", "TEXT", "User", TextNextStep >>,
      << "out", "8", "TEXT", "User", TextPlain >>,
      << "out", "", "SYSTEM", "Bot", TextPlain >> }

BehMsgs ==
    { WebMsg(ChatIds[c], k[1], RawIso(t, FALSE), k[2], k[3], k[4], k[5]) :
        c \in DOMAIN ChatIds, k \in MessageKinds, t \in 1..2 }

InitBehavior ==
    /\ \E flat \in BoundedSeq(BehMsgs, MaxBehMsgs),
          mgr \in [DOMAIN ChatIds -> { "", "7" }] :
          web_chats = [i \in DOMAIN ChatIds |->
                          WebChat(ChatIds[i], ChatChannels[i], mgr[i],
                                  SelectSeq(flat, LAMBDA m : m.chat_id = ChatIds[i]))]
    /\ chats_table = << >>
    /\ messages_table = << >>
    /\ behavior_out = BehaviorOut("idle", << >>, << >>)
    /\ ClockIdle /\ ChatIdle /\ PctIdle /\ AggIdle /\ DigestIdle /\ RestIdle

\* export_to_sheets.main: the chat loop, the roll-ups and the sheet writes
ExportChatLoop ==
    /\ behavior_out.tag = "idle"
    /\ web_chats # << >>
    /\ LET t == ExportedTables(web_chats, work_start, work_end)
       IN  /\ chats_table' = t.chats
           /\ messages_table' = t.messages
           /\ metrics_rows' = t.metrics
           /\ manager_summary' = aggregate_manager_summary(t.metrics)
           /\ channel_summary' = aggregate_channel_summary(t.metrics)
           /\ agg_pc' = "done"
           /\ behavior_out' = BehaviorOut(IF t.tag = "ok" THEN "exported" ELSE "raised",
                                          << >>, << >>)
    /\ UNCHANGED << web_chats, clockVars, chatVars, pctVars, digestVars, restVars >>

\* behavior_digest.main on the sheets the export wrote
BehaviorSnapshot ==
    /\ behavior_out.tag = "exported"
    /\ behavior_out' = behavior_digest_main(chats_table, messages_table)
    /\ UNCHANGED << web_chats, chats_table, messages_table, clockVars, chatVars,
                    pctVars, aggVars, digestVars, restVars >>

-----------------------------------------------------------------------------
(* SpecAdvice: the advice rules of compute_chat_metrics over bounded chats  *)
(* with texts.                                                              *)

MaxAdviceMsgs == 3     \* messages per chat

TextQuestion == << "o", "k", "?" >>
TextWhat == << "c", "t", "o" >>
TextCheckout == << "o", "f", "o", "r", "m", "i", "m" >>

InboundTexts == { TextPlain, TextPrice }
OutboundTexts == { TextPlain, TextQuestion, TextWhat, TextCheckout }
AdviceStamps == { RawIso(t, FALSE) : t \in 1..3 }
SlowThresholds == { 0, SlowFirstReplyDefault }

TextMsg(direction, sentAt, text) ==
    [direction |-> direction, sentAt |-> sentAt, text |-> text]

AdviceMsgs ==
    { TextMsg("in", v, t) : v \in AdviceStamps, t \in InboundTexts }
    \cup { TextMsg("out", v, t) : v \in AdviceStamps, t \in OutboundTexts }

InitAdvice ==
    /\ messages \in BoundedSeq(AdviceMsgs, MaxAdviceMsgs)
    /\ slow_first_reply_sec \in SlowThresholds
    /\ metrics = PendingMetrics
    /\ sorted_ms = SortOut("pending", << >>)
    /\ ClockIdle /\ PctIdle /\ AggIdle /\ DigestIdle /\ BehIdle /\ StageIdle
    /\ SpinIdle /\ MoreIdle

-----------------------------------------------------------------------------
(* SpecStage: detect_sales_stage and extract_dialog_flow over bounded       *)
(* manager messages.                                                        *)

MaxPos == 4            \* last position of a message in its chat
MaxFlowMsgs == 3       \* manager messages of one dialog flow

\* Privet
StageTextHello == << "P", "r", "i", "v", "e", "t" >>
\* Dobryj denx, oformim zakaz
StageTextHelloOrder == << "D", "o", "b", "r", "y", "j", " ", "d", "e", "n", "x", ",", " ", "o", "f", "o", "r", "m", "i", "m", " ", "z", "a", "k", "a", "z" >>
\* oformim zakaz
StageTextOrder == << "o", "f", "o", "r", "m", "i", "m", " ", "z", "a", "k", "a", "z" >>
\* oformim zakaz?
StageTextOrderAsk == << "o", "f", "o", "r", "m", "i", "m", " ", "z", "a", "k", "a", "z", "?" >>
\* kakoj razmer?
StageTextAskSize == << "k", "a", "k", "o", "j", " ", "r", "a", "z", "m", "e", "r", "?" >>
\* ponimaw, no mojem oformitx zakaz pozje
StageTextButOrder == << "p", "o", "n", "i", "m", "a", "w", ",", " ", "n", "o", " ", "m", "o", "j", "e", "m", " ", "o", "f", "o", "r", "m", "i", "t", "x", " ", "z", "a", "k", "a", "z", " ", "p", "o", "z", "j", "e" >>
\* u nas estx eta modelx, cena 100
StageTextOffer == << "u", " ", "n", "a", "s", " ", "e", "s", "t", "x", " ", "e", "t", "a", " ", "m", "o", "d", "e", "l", "x", ",", " ", "c", "e", "n", "a", " ", "1", "0", "0" >>
\* ok
StageTextOk == << "o", "k" >>
\* spasibo
StageTextThanks == << "s", "p", "a", "s", "i", "b", "o" >>
\* ponimaw, odnako etot variant lucse
StageTextHowever == << "p", "o", "n", "i", "m", "a", "w", ",", " ", "o", "d", "n", "a", "k", "o", " ", "e", "t", "o", "t", " ", "v", "a", "r", "i", "a", "n", "t", " ", "l", "u", "c", "s", "e" >>

StageTexts ==
    { StageTextHello,
      StageTextHelloOrder,
      StageTextOrder,
      StageTextOrderAsk,
      StageTextAskSize,
      StageTextButOrder,
      StageTextOffer,
      StageTextOk,
      StageTextThanks,
      StageTextHowever }

\* Zdravstvujte
FlowTextHello == << "Z", "d", "r", "a", "v", "s", "t", "v", "u", "j", "t", "e" >>
\* oformim zakaz
FlowTextOrder == << "o", "f", "o", "r", "m", "i", "m", " ", "z", "a", "k", "a", "z" >>
\* kogda oformim zakaz?
FlowTextWhenOrder == << "k", "o", "g", "d", "a", " ", "o", "f", "o", "r", "m", "i", "m", " ", "z", "a", "k", "a", "z", "?" >>
\* spasibo
FlowTextThanks == << "s", "p", "a", "s", "i", "b", "o" >>

FlowTexts == { FlowTextHello, FlowTextOrder, FlowTextWhenOrder, FlowTextThanks }

\* len(manager_messages) of the caller; 0 is the default of the argument
ChatLengths == { 0, 5, 40 }

InitDetect ==
    /\ stage_text \in StageTexts
    /\ position_in_chat \in 0..MaxPos
    /\ total_messages \in { n \in ChatLengths : n = 0 \/ position_in_chat < n }
    /\ stage = "pending"
    /\ flow_messages = << >>
    /\ flow = << >>
    /\ flow_pc = "idle"

InitFlow ==
    /\ flow_messages \in BoundedSeq(FlowTexts, MaxFlowMsgs)
    /\ flow = << >>
    /\ flow_pc = "pending"
    /\ stage_text = << >>
    /\ position_in_chat = 0
    /\ total_messages = 0
    /\ stage = "idle"

InitStage ==
    /\ InitDetect \/ InitFlow
    /\ ClockIdle /\ ChatIdle /\ PctIdle /\ AggIdle /\ DigestIdle /\ BehIdle
    /\ AdviceIdle /\ SpinIdle /\ MoreIdle

DetectSalesStage ==
    /\ stage = "pending"
    /\ stage' = detect_sales_stage(stage_text, position_in_chat, total_messages)
    /\ UNCHANGED << stage_text, position_in_chat, total_messages, flow_messages,
                    flow, flow_pc, clockVars, chatVars, pctVars, aggVars,
                    digestVars, behVars, adviceVars, spinVars, moreVars >>

ExtractDialogFlow ==
    /\ flow_pc = "pending"
    /\ flow' = extract_dialog_flow(flow_messages)
    /\ flow_pc' = "done"
    /\ UNCHANGED << stage_text, position_in_chat, total_messages, stage,
                    flow_messages, clockVars, chatVars, pctVars, aggVars,
                    digestVars, behVars, adviceVars, spinVars, moreVars >>

-----------------------------------------------------------------------------
(* SpecSpin: the chat loop of spin_analysis.main over bounded chats.        *)

MaxSpinMsgs == 2       \* messages of one chat

\* kakoj razmer?
SpinTextSituation == << "k", "a", "k", "o", "j", " ", "r", "a", "z", "m", "e", "r", "?" >>
\* Problema, poetomu?
SpinTextProblem == << "P", "r", "o", "b", "l", "e", "m", "a", ",", " ", "p", "o", "e", "t", "o", "m", "u", "?" >>
\* cto eto dast?
SpinTextNeedPayoff == << "c", "t", "o", " ", "e", "t", "o", " ", "d", "a", "s", "t", "?" >>
\* razmer, problema, poetomu polxza
SpinTextAll == << "r", "a", "z", "m", "e", "r", ",", " ", "p", "r", "o", "b", "l", "e", "m", "a", ",", " ", "p", "o", "e", "t", "o", "m", "u", " ", "p", "o", "l", "x", "z", "a" >>

SpinMsg(direction, manager_id, text) ==
    [direction |-> direction, manager_id |-> manager_id, text |-> text]

SpinManagerTexts ==
    { SpinTextSituation, SpinTextProblem, SpinTextNeedPayoff, SpinTextAll }

SpinMsgs ==
    { SpinMsg("out", "7", t) : t \in SpinManagerTexts }
    \cup { SpinMsg("in", "", SpinTextSituation), SpinMsg("out", "8", SpinTextProblem) }

SpinManagers == { "7", "8" }

InitSpin ==
    /\ spin_metrics = << >>
    /\ spin_agg = << >>
    /\ spin_pc = "collect"
    /\ ClockIdle /\ ChatIdle /\ PctIdle /\ AggIdle /\ DigestIdle /\ BehIdle
    /\ AdviceIdle /\ StageIdle /\ MoreIdle

\* spin_analysis.main: analyze_chat_spin on the next chat with messages
AnalyzeChatSpin(chat_id, msgs, manager_id) ==
    /\ spin_pc = "collect"
    /\ Len(spin_metrics) < Len(ChatIds)
    /\ msgs # << >>
    /\ spin_metrics' = Append(spin_metrics,
                              analyze_chat_spin(chat_id, msgs, manager_id,
                                                UserName(manager_id)))
    /\ UNCHANGED << spin_agg, spin_pc, clockVars, chatVars, pctVars, aggVars,
                    digestVars, behVars, adviceVars, stageVars, moreVars >>

\* spin_analysis.main: aggregate_manager_spin after the chat loop
AggregateManagerSpin ==
    /\ spin_pc = "collect"
    /\ spin_agg' = aggregate_manager_spin(spin_metrics)
    /\ spin_pc' = "done"
    /\ UNCHANGED << spin_metrics, clockVars, chatVars, pctVars, aggVars, digestVars,
                    behVars, adviceVars, stageVars, moreVars >>

-----------------------------------------------------------------------------
(* SpecTop and SpecGood: the example candidates of behavior_digest.main and *)
(* pick_top, over chats given by the features the chat loop computes.       *)

MaxCandChats == 4      \* chats of SpecTop
MaxGoodChats == 2      \* chats of SpecGood

ChatFeatures(mid, no_reply_flag, fr, high_intent, responded, next_step, questions) ==
    [mid |-> mid, no_reply_flag |-> no_reply_flag, fr |-> fr,
     high_intent |-> high_intent, responded |-> responded,
     next_step |-> next_step, questions |-> questions]

CandManagers == { "7", "8" }

\* chats that are candidates of no_reply, slow_reply or no_next_step_high_intent
TopFeatures ==
    { ChatFeatures(mid, TRUE, NoneOut, FALSE, FALSE, FALSE, 0) : mid \in CandManagers }
    \cup { ChatFeatures(mid, FALSE, IntOut(fr), FALSE, TRUE, FALSE, 0) :
              mid \in CandManagers, fr \in { 600, 1800, 1900 } }
    \cup { ChatFeatures(mid, TRUE, IntOut(1900), FALSE, TRUE, FALSE, 0) :
              mid \in CandManagers }
    \cup { ChatFeatures(mid, FALSE, NoneOut, TRUE, TRUE, FALSE, 0) : mid \in CandManagers }

\* chats of one manager around the conditions of the good category
GoodFeatures ==
    { ChatFeatures("7", FALSE, fr, FALSE, responded, next_step, questions) :
        fr \in { NoneOut, IntOut(0), IntOut(1), IntOut(599), IntOut(600), IntOut(601) },
        responded \in BOOLEAN, next_step \in BOOLEAN, questions \in 0..1 }

NoSnippet == << << >>, << >> >>

\* the candidates of all chats in the order the chat loop meets them
AllCandidates(chats) ==
    Concat([i \in DOMAIN chats |->
        ExampleCandidates(chats[i].mid, ToString(i), chats[i].no_reply_flag,
                          chats[i].fr, chats[i].high_intent, chats[i].responded,
                          chats[i].next_step, chats[i].questions, NoSnippet)])

CategoryCandidates(chats, category) ==
    SelectSeq(AllCandidates(chats), LAMBDA c : c.category = category)

InitTop ==
    /\ cand_chats \in BoundedSeq(TopFeatures, MaxCandChats)
    /\ top_examples = << >>
    /\ top_pc = "pending"
    /\ ClockIdle /\ ChatIdle /\ PctIdle /\ AggIdle /\ DigestIdle /\ BehIdle
    /\ AdviceIdle /\ StageIdle /\ SpinIdle /\ ExportIdle /\ HttpIdle

InitGood ==
    /\ cand_chats \in BoundedSeq(GoodFeatures, MaxGoodChats)
    /\ top_examples = << >>
    /\ top_pc = "pending"
    /\ ClockIdle /\ ChatIdle /\ PctIdle /\ AggIdle /\ DigestIdle /\ BehIdle
    /\ AdviceIdle /\ StageIdle /\ SpinIdle /\ ExportIdle /\ HttpIdle

\* behavior_digest.main: top_no_reply, top_slow, top_no_next, top_good
PickTop ==
    /\ top_pc = "pending"
    /\ top_examples' = [k \in DOMAIN ExampleCategories |->
                            pick_top(CategoryCandidates(cand_chats, ExampleCategories[k]))]
    /\ top_pc' = "done"
    /\ UNCHANGED << cand_chats, clockVars, chatVars, pctVars, aggVars, digestVars,
                    behVars, adviceVars, stageVars, spinVars, exportVars, httpVars >>

-----------------------------------------------------------------------------
(* SpecAttribution: the manager of a chat, in the export (compute_chat_-    *)
(* metrics) and in behavior_digest.main run on sheets as it finds them.     *)

MaxAttrMsgs == 2       \* messages over all chats

\* <<direction, managerId, authorType>>
AttrKinds ==
    { << "in", "", "Customer" >>, << "out", "7", "User" >>,
      << "out", "8", "User" >>, << "out", "", "User" >> }

AttrMsgs ==
    { WebMsg(ChatIds[c], k[1], RawIso(t, FALSE), k[2], "TEXT", k[3], TextPlain) :
        c \in DOMAIN ChatIds, k \in AttrKinds, t \in 1..2 }

\* a chats_raw row as the export writes it for a chat without messages
SheetChatRow(cid, mid) ==
    [chat_id |-> cid, manager_id |-> mid,
     manager_name |-> IF mid = "" THEN "" ELSE IF UserName(mid) # "" THEN UserName(mid)
                      ELSE mid,
     inbound_count |-> 0, outbound_count |-> 0, first_response_sec |-> EmptyCell,
     unanswered_inbound |-> 0]

\* the rows of chats_raw for one chat: none, or one with or without manager
SheetRowChoices(cid) ==
    { << >>, << SheetChatRow(cid, "") >>, << SheetChatRow(cid, "7") >> }

\* the export about to run on chats fetched from the web API
InitAttrExport ==
    /\ \E flat \in BoundedSeq(AttrMsgs, MaxAttrMsgs),
          mgr \in [DOMAIN ChatIds -> { "", "7" }] :
          web_chats = [i \in DOMAIN ChatIds |->
                          WebChat(ChatIds[i], ChatChannels[i], mgr[i],
                                  SelectSeq(flat, LAMBDA m : m.chat_id = ChatIds[i]))]
    /\ chats_table = << >>
    /\ messages_table = << >>
    /\ behavior_out = BehaviorOut("idle", << >>, << >>)
    /\ ClockIdle /\ ChatIdle /\ PctIdle /\ AggIdle /\ DigestIdle /\ RestIdle

\* behavior_digest about to run on the sheets it finds
InitAttrSheets ==
    /\ web_chats = << >>
    /\ \E r1 \in SheetRowChoices(ChatIds[1]), r2 \in SheetRowChoices(ChatIds[2]) :
          chats_table = r1 \o r2
    /\ \E flat \in BoundedSeq(AttrMsgs, MaxAttrMsgs) :
          messages_table = [i \in DOMAIN flat |-> MessageRow(flat[i].chat_id, flat[i])]
    /\ behavior_out = BehaviorOut("exported", << >>, << >>)
    /\ ClockIdle /\ ChatIdle /\ PctIdle /\ AggIdle /\ DigestIdle /\ RestIdle

InitAttribution == InitAttrExport \/ InitAttrSheets

-----------------------------------------------------------------------------
(* SpecFollowGap: behavior_digest.main on messages_raw rows with and        *)
(* without stamps.                                                          *)

MaxGapMsgs == 3        \* rows of messages_raw

\* <<direction, managerId, messageType, authorType>>
GapKinds ==
    { << "in", "", "TEXT", "Customer" >>, << "in", "", "SYSTEM", "Bot" >>,
      << "out", "7", "TEXT", "User" >>, << "out", "", "SYSTEM", "Bot" >> }

GapStamps == { RawEmpty, RawIso(1, FALSE), RawIso(2, FALSE) }

GapMsgs ==
    { WebMsg(ChatIds[c], k[1], t, k[2], k[3], k[4], TextPlain) :
        c \in DOMAIN ChatIds, k \in GapKinds, t \in GapStamps }

InitFollowGap ==
    /\ web_chats = << >>
    /\ chats_table = << >>
    /\ \E flat \in BoundedSeq(GapMsgs, MaxGapMsgs) :
          messages_table = [i \in DOMAIN flat |-> MessageRow(flat[i].chat_id, flat[i])]
    /\ behavior_out = BehaviorOut("exported", << >>, << >>)
    /\ ClockIdle /\ ChatIdle /\ PctIdle /\ AggIdle /\ DigestIdle /\ RestIdle

-----------------------------------------------------------------------------
(* SpecMedian: behavior_digest.main on chats_raw rows that carry            *)
(* first_response_sec, one inbound message per chat.                        *)

MaxMedianChats == 3    \* rows of chats_raw

MedianCells == { EmptyCell, IntOut(0), IntOut(1), IntOut(2), IntOut(3) }

MedianChatRow(i, mid, fr) ==
    [SheetChatRow(ToString(i), mid) EXCEPT
        !.inbound_count = 1, !.outbound_count = 1, !.first_response_sec = fr]

InitMedian ==
    /\ web_chats = << >>
    /\ \E n \in 1..MaxMedianChats :
          /\ \E mids \in [1..n -> CandManagers], frs \in [1..n -> MedianCells] :
                chats_table = [i \in 1..n |-> MedianChatRow(i, mids[i], frs[i])]
          /\ messages_table =
                [i \in 1..n |->
                    MessageRow(ToString(i),
                               WebMsg(ToString(i), "in", RawIso(1, FALSE), "", "TEXT",
                                      "Customer", TextPlain))]
    /\ behavior_out = BehaviorOut("exported", << >>, << >>)
    /\ ClockIdle /\ ChatIdle /\ PctIdle /\ AggIdle /\ DigestIdle /\ RestIdle

-----------------------------------------------------------------------------
(* SpecExport: the batch writes of export_to_sheets.main to chats_raw and   *)
(* messages_raw. pending_chats[i] is the number of messages of the i-th     *)
(* chat to process.                                                         *)

MaxExportChats == 4    \* chats to process
MaxChatRowsMsgs == 2   \* messages per chat
MaxBatchSize == 3      \* BATCH_SIZE
MaxTotalMessages == 200000
ChatLimit == 0

ChatsHeader == [kind |-> "chats_header", chat |-> 0, n |-> 0]
MessagesHeader == [kind |-> "messages_header", chat |-> 0, n |-> 0]
NoHeader == [kind |-> "None", chat |-> 0, n |-> 0]

ExportChatRow(i) == [kind |-> "chat", chat |-> i, n |-> 0]
ExportMessageRows(i, k) == [j \in 1..k |-> [kind |-> "message", chat |-> i, n |-> j]]

\* append_to_worksheet on an existing sheet with the values ws
append_to_worksheet(ws, rows, header) ==
    LET existing_values == IF ws = << >> /\ header # NoHeader THEN << header >> ELSE ws
    IN  existing_values \o rows

\* the sheets are cleared and the loop over web_chats is about to start
InitExport ==
    /\ pending_chats \in BoundedSeq(0..MaxChatRowsMsgs, MaxExportChats)
    /\ batch_size \in 1..MaxBatchSize
    /\ processed = 0 /\ batch_num = 0
    /\ chats_rows = << >> /\ messages_rows = << >>
    /\ chats_ws = << >> /\ messages_ws = << >>
    /\ export_pc = IF pending_chats = << >> THEN "flush" ELSE "loop"
    /\ DigestIdle /\ ClockIdle /\ ChatIdle /\ PctIdle /\ AggIdle /\ BehIdle
    /\ AdviceIdle /\ StageIdle /\ SpinIdle /\ TopIdle /\ HttpIdle

\* one iteration of "for raw_chat in web_chats"
ExportChat ==
    /\ export_pc = "loop"
    /\ LET i == processed + 1
           crows == Append(chats_rows, ExportChatRow(i))
           mrows == messages_rows \o ExportMessageRows(i, pending_chats[i])
           batch == i % batch_size = 0
           bn == IF batch THEN batch_num + 1 ELSE batch_num
           mleft == IF batch THEN << >> ELSE mrows
       IN  /\ processed' = i
           /\ batch_num' = bn
           /\ chats_ws' = IF batch
                           THEN append_to_worksheet(chats_ws, crows,
                                    IF bn = 1 THEN ChatsHeader ELSE NoHeader)
                           ELSE chats_ws
           /\ chats_rows' = IF batch THEN << >> ELSE crows
           /\ messages_ws' = IF batch /\ mrows # << >>
                              THEN append_to_worksheet(messages_ws, mrows,
                                       IF bn = 1 THEN MessagesHeader ELSE NoHeader)
                              ELSE messages_ws
           /\ messages_rows' = mleft
           /\ export_pc' = IF \/ Len(mleft) >= MaxTotalMessages
                              \/ (ChatLimit # 0 /\ i >= ChatLimit)
                              \/ i = Len(pending_chats)
                           THEN "flush" ELSE "loop"
    /\ UNCHANGED << pending_chats, batch_size, digestVars, clockVars, chatVars, pctVars,
                    aggVars, behVars, adviceVars, stageVars, spinVars, topVars, httpVars >>

\* "Записываем оставшиеся данные (последняя партия)"
FinalFlush ==
    /\ export_pc = "flush"
    /\ chats_ws' = IF chats_rows # << >>
                    THEN append_to_worksheet(chats_ws, chats_rows, NoHeader)
                    ELSE chats_ws
    /\ messages_ws' = IF messages_rows # << >>
                       THEN append_to_worksheet(messages_ws, messages_rows, NoHeader)
                       ELSE messages_ws
    /\ export_pc' = "done"
    /\ UNCHANGED << pending_chats, batch_size, processed, batch_num, chats_rows,
                    messages_rows, digestVars, clockVars, chatVars, pctVars,
                    aggVars, behVars, adviceVars, stageVars, spinVars, topVars, httpVars >>

-----------------------------------------------------------------------------
(* SpecRollup: compute_chat_metrics per chat under a slow-reply threshold,  *)
(* then aggregate_manager_summary and aggregate_channel_summary over the    *)
(* collected ChatMetrics.                                                   *)

MaxRollupChats == 2    \* chats of one export
MaxRollupMsgs == 2     \* messages per chat

RollupStamps == { RawEmpty } \cup { RawIso(t, FALSE) : t \in 1..MaxT }
RollupMsgs == { Msg(d, v) : d \in {"in", "out"}, v \in RollupStamps }
RollupThresholds == { 0, 1, SlowFirstReplyDefault }

\* the ChatMetrics of one chat: the fields the roll-ups read, and the advice
RollupRow(who, ch, m) ==
    [manager_id |-> who[1], manager_name |-> who[2], channel |-> ch,
     inbound_count |-> m.inbound_count, outbound_count |-> m.outbound_count,
     unanswered_inbound |-> m.unanswered_inbound,
     first_response_sec |-> m.first_response_sec, advice |-> m.advice]

InitRollup ==
    /\ slow_first_reply_sec \in RollupThresholds
    /\ ClockIdle /\ ChatIdle /\ PctIdle /\ AggIdle /\ DigestIdle /\ BehIdle
    /\ StageIdle /\ SpinIdle /\ MoreIdle

\* one chat: compute_chat_metrics with the threshold in force; the caller
\* collects the ChatMetrics for the roll-ups (metrics_rows.append(metrics))
ComputeAndAppend ==
    /\ agg_pc = "collect"
    /\ Len(metrics_rows) < MaxRollupChats
    /\ \E ms \in BoundedSeq(RollupMsgs, MaxRollupMsgs), who \in Managers, ch \in Channels :
          LET m == compute_chat_metrics(ms, work_start, work_end, slow_first_reply_sec)
          IN  IF m.tag = "ok"
              THEN /\ metrics_rows' = Append(metrics_rows, RollupRow(who, ch, m))
                   /\ agg_pc' = agg_pc
              ELSE /\ metrics_rows' = metrics_rows
                   /\ agg_pc' = "raised"
    /\ UNCHANGED << manager_summary, channel_summary, clockVars, chatVars, pctVars,
                    digestVars, extraVars >>

-----------------------------------------------------------------------------
(* SpecHttp: the retry loops of RetailCrmClient._request and                *)
(* WebGraphQLClient.request_batch.  http_log holds the outcome of every     *)
(* HTTP request issued so far; attempt is the loop index of the next one.   *)

MaxHttpRetries == 2    \* max_retries of the client

\* the outcome of requests.request: a response with a status code and, for
\* a 2xx body, whether it says "success": false; or a transport exception
HttpResponse(code, success) == [kind |-> "response", code |-> code, success |-> success]
TimeoutError == [kind |-> "Timeout", code |-> 0, success |-> FALSE]
ConnectionError == [kind |-> "ConnectionError", code |-> 0, success |-> FALSE]

RetryStatuses == { 429, 500, 502, 503, 504 }
HttpOutcomes ==
    { HttpResponse(200, TRUE), HttpResponse(200, FALSE), HttpResponse(404, FALSE) }
    \cup { HttpResponse(c, FALSE) : c \in RetryStatuses }
    \cup { TimeoutError, ConnectionError }

\* resp.ok
RespOk(r) == r.code >= 200 /\ r.code < 400

\* one pass of the loop body of RetailCrmClient._request
retailcrm_request_step(r, att, retries) ==
    IF r.kind # "response"
    THEN IF att >= retries THEN "raised" ELSE "retry"
    ELSE IF r.code \in RetryStatuses /\ att < retries THEN "retry"
    ELSE IF ~RespOk(r) \/ ~r.success
         THEN IF att >= retries THEN "raised" ELSE "retry"
    ELSE "returned"

\* one pass of the loop body of WebGraphQLClient.request_batch; the body of
\* a 2xx response is returned as it is
web_request_batch_step(r, att, retries) ==
    IF r.kind # "response"
    THEN IF att >= retries THEN "raised" ELSE "retry"
    ELSE IF r.code \in RetryStatuses /\ att < retries THEN "retry"
    ELSE IF ~RespOk(r) THEN "raised"
    ELSE "returned"

InitHttp ==
    /\ http_client \in { "retailcrm", "web" }
    /\ max_retries \in 0..MaxHttpRetries
    /\ attempt = 0
    /\ http_log = << >>
    /\ http_result = "running"
    /\ DigestIdle /\ ClockIdle /\ ChatIdle /\ PctIdle /\ AggIdle /\ BehIdle
    /\ AdviceIdle /\ StageIdle /\ SpinIdle /\ TopIdle /\ ExportIdle

HttpStep(r, next) ==
    /\ http_log' = Append(http_log, r)
    /\ http_result' = IF next = "retry" THEN "running" ELSE next
    /\ attempt' = IF next = "retry" THEN attempt + 1 ELSE attempt
    /\ UNCHANGED << http_client, max_retries, digestVars, clockVars, chatVars, pctVars,
                    aggVars, behVars, adviceVars, stageVars, spinVars, topVars,
                    exportVars >>

\* one attempt of RetailCrmClient._request
RetailCrmAttempt(r) ==
    /\ http_client = "retailcrm"
    /\ http_result = "running"
    /\ HttpStep(r, retailcrm_request_step(r, attempt, max_retries))

\* one attempt of WebGraphQLClient.request_batch
WebAttempt(r) ==
    /\ http_client = "web"
    /\ http_result = "running"
    /\ HttpStep(r, web_request_batch_step(r, attempt, max_retries))

-----------------------------------------------------------------------------
(* Specifications *)

NextClock == BusinessSecondsBetween
SpecClock == InitClock /\ [][NextClock]_vars

NextMetrics == ComputeChatMetrics
SpecMetrics == InitMetrics /\ [][NextMetrics]_vars

NextOrdering == ComputeChatMetrics \/ SortChatMessages
SpecOrdering == InitOrdering /\ [][NextOrdering]_vars

NextPct == ApplyPct
SpecPct == InitPct /\ [][NextPct]_vars

InitAgg == AggIdle /\ ClockIdle /\ ChatIdle /\ PctIdle /\ DigestIdle /\ ExtraIdle
NextAgg == (\E r \in MetricsRows : AppendMetrics(r)) \/ Aggregate
SpecAgg == InitAgg /\ [][NextAgg]_vars

Init == DigestIdle /\ ClockIdle /\ ChatIdle /\ PctIdle /\ AggIdle /\ ExtraIdle
Next ==
    \/ \E gap \in (IF runs = 0 THEN {0} ELSE 1..MaxGap), exported \in ExportVariants :
          ExportToSheets(gap, exported)
    \/ BehaviorDigest
    \/ WeeklyDigest
Spec == Init /\ [][Next]_vars

NextBehavior == ExportChatLoop \/ BehaviorSnapshot
SpecBehavior == InitBehavior /\ [][NextBehavior]_vars

NextAdvice == ComputeChatMetrics
SpecAdvice == InitAdvice /\ [][NextAdvice]_vars

\* compute_chat_metrics and _business_seconds_between, each over its inputs
InitResponse == InitMetrics \/ InitClock
NextResponse == ComputeChatMetrics \/ BusinessSecondsBetween
SpecResponse == InitResponse /\ [][NextResponse]_vars

NextStage == DetectSalesStage \/ ExtractDialogFlow
SpecStage == InitStage /\ [][NextStage]_vars

NextSpin ==
    \/ \E msgs \in BoundedSeq(SpinMsgs, MaxSpinMsgs), manager_id \in SpinManagers :
          AnalyzeChatSpin(ChatIds[Len(spin_metrics) + 1], msgs, manager_id)
    \/ AggregateManagerSpin
SpecSpin == InitSpin /\ [][NextSpin]_vars

NextTop == PickTop
SpecTop == InitTop /\ [][NextTop]_vars

NextAttribution == ExportChatLoop \/ BehaviorSnapshot
SpecAttribution == InitAttribution /\ [][NextAttribution]_vars

NextFollowGap == BehaviorSnapshot
SpecFollowGap == InitFollowGap /\ [][NextFollowGap]_vars

NextMedian == BehaviorSnapshot
SpecMedian == InitMedian /\ [][NextMedian]_vars

NextExport == ExportChat \/ FinalFlush
SpecExport == InitExport /\ [][NextExport]_vars

NextRollup == ComputeAndAppend \/ Aggregate
SpecRollup == InitRollup /\ [][NextRollup]_vars

NextHttp ==
    \/ \E r \in HttpOutcomes : RetailCrmAttempt(r)
    \/ \E r \in HttpOutcomes : WebAttempt(r)
SpecHttp == InitHttp /\ [][NextHttp]_vars

NextGood == PickTop
SpecGood == InitGood /\ [][NextGood]_vars

-----------------------------------------------------------------------------
(* Claims *)

SetMin(S) == CHOOSE x \in S : \A y \in S : x <= y
SetMax(S) == CHOOSE x \in S : \A y \in S : x >= y
Abs(x) == IF x < 0 THEN -x ELSE x

\* positions of the chat's messages of one direction that carry a timestamp
Stamped(d) ==
    { i \in DOMAIN messages : messages[i].direction = d /\ messages[i].sentAt.raw = "iso" }
StampsOf(d) == { messages[i].sentAt.t : i \in Stamped(d) }

\* C1: first_outbound_at is the smallest outbound timestamp at or after the
\* first inbound timestamp, and null when there is no inbound timestamp or no
\* such outbound; an outbound before the first inbound is never selected.
C1_FirstOutboundNotBeforeInbound ==
    metrics.tag = "ok" =>
        LET ins == StampsOf("in")
            cands == IF ins = {} THEN {}
                     ELSE { t \in StampsOf("out") : t >= SetMin(ins) }
        IN  IF cands = {} THEN ~metrics.first_outbound_at.some
            ELSE /\ metrics.first_outbound_at.some
                 /\ metrics.first_outbound_at.t = SetMin(cands)

\* an outbound precedes the first inbound and a later outbound was selected
C1_Witness ==
    /\ metrics.tag = "ok"
    /\ StampsOf("in") # {}
    /\ \E t \in StampsOf("out") : t < SetMin(StampsOf("in"))
    /\ metrics.first_outbound_at.some
    /\ metrics.first_outbound_at.t > SetMin(StampsOf("in"))

\* the work-window units inside [s, e), counted one by one
UnitsInWindow(s, e, ws, we) ==
    Cardinality({ u \in s..(e - 1) : ws <= u % DayLen /\ u % DayLen < we })

C3_UnansweredStrictlyAfterLastOutbound ==
    (metrics.tag = "ok" /\ StampsOf("out") # {}) =>
        metrics.unanswered_inbound =
            Cardinality({ i \in Stamped("in") :
                            messages[i].sentAt.t > SetMax(StampsOf("out")) })

\* inbound at t1 < t2 < t3, one outbound between t2 and t3, one unanswered
C3_Witness ==
    /\ metrics.tag = "ok"
    /\ Cardinality(Stamped("in")) = 3
    /\ StampsOf("in") = {0, 1, 3}
    /\ StampsOf("out") = {2}
    /\ metrics.unanswered_inbound = 1

\* C4: with no outbound message at all, unanswered_inbound equals the number
\* of all inbound messages, those without a usable sent_at included.
C4_AllInboundUnansweredWithoutOutbound ==
    (metrics.tag = "ok" /\ \A i \in DOMAIN messages : messages[i].direction # "out") =>
        metrics.unanswered_inbound =
            Cardinality({ i \in DOMAIN messages : messages[i].direction = "in" })

\* the snapshots of one key in a history sheet
SnapshotsOf(ws, field, k) == { ws.rows[i] : i \in { j \in DOMAIN ws.rows : ws.rows[j][field] = k } }

\* the baseline of a key is the latest of its snapshots at or before the
\* cutoff, and absent when it has none
BaselineIsLatestQualifying(baseline, ws, field, k) ==
    LET qual == { r \in SnapshotsOf(ws, field, k) : r.run_ts <= now - BaselineDays }
        got == { b \in baseline : b.key[1] = k }
    IN  IF qual = {} THEN got = {}
        ELSE /\ Cardinality(got) = 1
             /\ \A b \in got : b.row \in qual /\ \A r \in qual : r.run_ts <= b.row.run_ts

\* snapshots of the key at T-10, T-7, T-3, T-1 besides the one of this run
CutoffScenario(ws, field, k) ==
    { r.run_ts : r \in SnapshotsOf(ws, field, k) } \ {now}
        = { now - 10, now - 7, now - 3, now - 1 }

ScenarioPicksSevenDaysAgo(baseline, ws, field, k) ==
    CutoffScenario(ws, field, k) =>
        \E b \in baseline : b.key[1] = k /\ b.row.run_ts = now - 7

ManagerIds == { "", "7" }
ChannelNames == { "telegram", "unknown" }
WeeklyDone == pc = "export" /\ runs > 0
BehaviorDone == pc = "weekly_digest" \/ WeeklyDone

\* C5: in both digests the baseline of a key is its snapshot with the maximum
\* run_ts among those with run_ts <= now - 6 days; with snapshots at T-10,
\* T-7, T-3 and T-1 it is the one at T-7.
C5_BaselineIsLatestBeforeCutoff ==
    /\ WeeklyDone =>
          /\ \A k \in ManagerIds :
                /\ BaselineIsLatestQualifying(mgr_baseline, hist_mgr, "manager_id", k)
                /\ ScenarioPicksSevenDaysAgo(mgr_baseline, hist_mgr, "manager_id", k)
          /\ \A k \in ChannelNames :
                BaselineIsLatestQualifying(ch_baseline, hist_ch, "channel", k)
    /\ BehaviorDone =>
          \A k \in ManagerIds :
                /\ BaselineIsLatestQualifying(beh_baseline, hist_beh, "manager_id", k)
                /\ ScenarioPicksSevenDaysAgo(beh_baseline, hist_beh, "manager_id", k)

\* both digests have run on the T-10, T-7, T-3, T-1 history of manager 7
C5_Witness ==
    /\ WeeklyDone
    /\ CutoffScenario(hist_mgr, "manager_id", "7")
    /\ CutoffScenario(hist_beh, "manager_id", "7")
    /\ \E b \in mgr_baseline : b.key[1] = "7" /\ b.row.run_ts = now - 7
    /\ \E b \in beh_baseline : b.key[1] = "7" /\ b.row.run_ts = now - 7

RowsKept(old, new) ==
    /\ Len(new.rows) >= Len(old.rows)
    /\ SubSeq(new.rows, 1, Len(old.rows)) = old.rows

\* C6: every snapshot row a run appended to a history table is still there,
\* unchanged, after every later run.
C6_HistoryRowsNeverRemoved ==
    [][ /\ RowsKept(hist_mgr, hist_mgr')
        /\ RowsKept(hist_ch, hist_ch')
        /\ RowsKept(hist_beh, hist_beh') ]_vars

\* the integer nearest to m/10, halves going to the even neighbour
NearestRank(m) ==
    CHOOSE k \in 0..m : /\ Abs(10 * k - m) <= 5
                        /\ (Abs(10 * k - m) = 5 => k % 2 = 0)

\* C7: for a non-empty sample _pct returns the element of rank
\* round((n-1)*p) of the ascending sample, a member of the sample;
\* [10,20,30,40,50] gives 30 for p = 0.5 and 50 for p = 0.9.
C7_PercentileIsNearestRank ==
    (pct_out # Pending /\ values # << >>) =>
        LET n == Len(values)
            k == Max(0, Min(n - 1, NearestRank((n - 1) * pct_p)))
            v == pct_out.val
        IN  /\ pct_out.tag = "int"
            /\ \E i \in DOMAIN values : values[i] = v
            /\ Cardinality({ i \in DOMAIN values : values[i] < v }) <= k
            /\ Cardinality({ i \in DOMAIN values : values[i] <= v }) >= k + 1
            /\ values = << 10, 20, 30, 40, 50 >> => v = (IF pct_p = 5 THEN 30 ELSE 50)

\* the p90 of [10,20,30,40,50], given out of order
C7_Witness ==
    /\ values = << 50, 10, 40, 20, 30 >>
    /\ pct_p = 9
    /\ pct_out = IntOut(50)

\* the chats of a summary row that have a first_response_sec
SampleOfManager(row) ==
    { i \in DOMAIN metrics_rows :
        /\ metrics_rows[i].manager_id = row.manager_id
        /\ metrics_rows[i].manager_name = row.manager_name
        /\ metrics_rows[i].first_response_sec.tag = "int" }
SampleOfChannel(row) ==
    { i \in DOMAIN metrics_rows :
        /\ (IF metrics_rows[i].channel = "" THEN "unknown" ELSE "telegram") = row.channel
        /\ metrics_rows[i].first_response_sec.tag = "int" }

\* C8: in every manager and channel summary row the median and p90 cells are
\* empty exactly when the group has no chat with a first_response_sec.
C8_PercentileEmptyOnlyForEmptySample ==
    agg_pc = "done" =>
        /\ \A i \in DOMAIN manager_summary :
              LET row == manager_summary[i] IN
              /\ row.median_first_reply_sec.tag = "empty" <=> SampleOfManager(row) = {}
              /\ row.p90_first_reply_sec.tag = "empty" <=> SampleOfManager(row) = {}
        /\ \A i \in DOMAIN channel_summary :
              LET row == channel_summary[i] IN
              /\ row.median_first_reply_sec.tag = "empty" <=> SampleOfChannel(row) = {}
              /\ row.p90_first_reply_sec.tag = "empty" <=> SampleOfChannel(row) = {}

\* C9: with work_end <= work_start compute_chat_metrics raises the
\* configuration error for every chat, whatever its messages.
C9_BadWindowAlwaysRaises ==
    (metrics.tag # "pending" /\ work_end <= work_start) => metrics.tag = "ValueError"

\* C10: a chat that mixes missing or unparseable sent_at values with valid
\* ones, naive or aware, never makes compute_chat_metrics or the per-chat
\* sort of behavior_digest raise.
C10_BadTimestampNeverRaises ==
    /\ metrics.tag \in {"pending", "ok"}
    /\ sorted_ms.tag \in {"pending", "ok"}

RECURSIVE SumChats(_)
SumChats(rows) == IF rows = << >> THEN 0 ELSE Head(rows).chats + SumChats(Tail(rows))

\* C11: every chat of the export is counted exactly once in every roll-up:
\* the chats of the manager summary, of the channel summary and of the
\* per-manager snapshot rows of behavior_digest each add up to the number of
\* input chats, chats with zero messages included.
C11_EveryChatCountedInEveryRollup ==
    behavior_out.tag = "ok" =>
        /\ SumChats(manager_summary) = Len(web_chats)
        /\ SumChats(channel_summary) = Len(web_chats)
        /\ SumChats(behavior_out.out_rows) = Len(web_chats)

\* a run of LongDigits or more digits
HasDigitRun(s) ==
    \E i \in 1..(Len(s) - LongDigits + 1) : \A j \in i..(i + LongDigits - 1) : IsDigit(s[j])

HasUrl(s) ==
    \E i \in DOMAIN s :
        \/ StartsWith(s, i, << "h", "t", "t", "p", ":", "/", "/" >>)
        \/ StartsWith(s, i, << "h", "t", "t", "p", "s", ":", "/", "/" >>)

\* name@host.tld
HasEmail(s) ==
    \E i \in DOMAIN s :
        /\ s[i] = "@"
        /\ i > 1 /\ IsWordChar(s[i - 1])
        /\ \E k \in (i + 2)..(Len(s) - 1) :
              /\ s[k] = "." /\ IsWordChar(s[k + 1])
              /\ \A j \in (i + 1)..k : InClass(s[j], "domain")

\* the texts of the messages of one chat as the export received them
TextsOfChat(cid) ==
    UNION { { web_chats[i].messages[j].text : j \in DOMAIN web_chats[i].messages } :
              i \in { k \in DOMAIN web_chats : web_chats[k].id = cid } }

CleanSnippet(sn, cid) ==
    sn # << >> =>
        /\ \E t \in TextsOfChat(cid) :
              sn = _redact_text(Strip(ReplaceNewlines(t)), RedactMaxLen)
        /\ Len(sn) <= RedactMaxLen
        /\ ~HasUrl(sn)
        /\ ~HasEmail(sn)
        /\ ~HasDigitRun(sn)

\* C12: every snippet_in and snippet_out of an example row is _redact_text
\* of a message text of that chat, is at most 220 characters long and holds
\* no URL, no e-mail address and no run of 5 or more digits.
C12_ExampleSnippetsAreRedacted ==
    behavior_out.tag = "ok" =>
        \A i \in DOMAIN behavior_out.examples :
            /\ CleanSnippet(behavior_out.examples[i].snippet_in,
                            behavior_out.examples[i].chat_id)
            /\ CleanSnippet(behavior_out.examples[i].snippet_out,
                            behavior_out.examples[i].chat_id)

AdviceOrder == << NoReplyAdvice, SlowReplyAdvice, UnansweredAdvice,
                 FewQuestionsAdvice, NoNextStepAdvice >>

RankOf(a) == CHOOSE i \in DOMAIN AdviceOrder : AdviceOrder[i] = a

\* C13: the advice of every ChatMetrics holds no string twice and lists its
\* strings in the order of their rules: no reply, slow first reply,
\* unanswered inbound, no clarifying questions, no next step.
C13_AdviceUniqueInRuleOrder ==
    metrics.tag = "ok" =>
        /\ \A i \in DOMAIN metrics.advice :
              \E k \in DOMAIN AdviceOrder : metrics.advice[i] = AdviceOrder[k]
        /\ \A i, j \in DOMAIN metrics.advice :
              i < j => RankOf(metrics.advice[i]) < RankOf(metrics.advice[j])

\* slow first reply, unanswered inbound, no questions and no next step at once
C13_Witness ==
    /\ metrics.tag = "ok"
    /\ metrics.advice = << SlowReplyAdvice, UnansweredAdvice, FewQuestionsAdvice,
                           NoNextStepAdvice >>

InAdvice(a) == \E i \in DOMAIN metrics.advice : metrics.advice[i] = a
HasDirection(d) == \E i \in DOMAIN messages : messages[i].direction = d

\* C14 as stated: a chat without any outbound message gets the
\* no-manager-reply flag, a chat with an outbound message does not.
C14_NoOutboundAlwaysFlagged ==
    metrics.tag = "ok" =>
        /\ ~HasDirection("out") => InAdvice(NoReplyAdvice)
        /\ HasDirection("out") => ~InAdvice(NoReplyAdvice)

\* C14: a chat with at least one inbound and no outbound message gets the
\* no-manager-reply flag; a chat with an outbound message, or without any
\* inbound message, does not.
C14_InboundWithoutOutboundFlagged ==
    metrics.tag = "ok" =>
        (InAdvice(NoReplyAdvice) <=> (HasDirection("in") /\ ~HasDirection("out")))

\* the flag on a chat of inbound messages only
C14_Witness ==
    /\ metrics.tag = "ok"
    /\ Len(messages) >= 2
    /\ ~HasDirection("out")
    /\ InAdvice(NoReplyAdvice)

OutboundMatchesQuestion ==
    \E i \in DOMAIN messages :
        messages[i].direction = "out" /\ _RE_HAS_QUESTION(messages[i].text)

\* C15: a chat with inbound and outbound messages gets the 'too few clarifying
\* questions' flag exactly when no outbound text of the chat matches the
\* question pattern; a chat lacking either direction never gets it.
C15_FewQuestionsIffNoOutboundQuestion ==
    metrics.tag = "ok" =>
        IF HasDirection("in") /\ HasDirection("out")
        THEN InAdvice(FewQuestionsAdvice) <=> ~OutboundMatchesQuestion
        ELSE ~InAdvice(FewQuestionsAdvice)

\* C16: first_response_sec of a ChatMetrics is null when first_inbound_at or
\* first_outbound_at is missing and a non-negative integer otherwise;
\* _business_seconds_between returns null whenever end < start.
C16_FirstResponseNullOrNonNegative ==
    /\ metrics.tag = "ok" =>
          IF metrics.first_inbound_at.some /\ metrics.first_outbound_at.some
          THEN /\ metrics.first_response_sec.tag = "int"
               /\ metrics.first_response_sec.val >= 0
          ELSE metrics.first_response_sec = NoneOut
    /\ (elapsed # Pending /\ Comparable(start_dt, end_dt) /\ end_dt.t < start_dt.t)
          => elapsed = NoneOut

\* an inbound message whose only outbound messages were sent before it
C16_Witness ==
    /\ metrics.tag = "ok"
    /\ metrics.first_inbound_at.some
    /\ metrics.outbound_count > 0
    /\ metrics.last_outbound_at.some
    /\ ~metrics.first_outbound_at.some
    /\ metrics.first_response_sec = NoneOut

\* the snapshots of a key in a history sheet taken at or before now - 6 days
Qualifying(ws, key_fields, key) ==
    { r \in { ws.rows[i] : i \in DOMAIN ws.rows } :
        KeyOf(r, key_fields) = key /\ r.run_ts <= now - BaselineDays }

\* the delta of column k in row d: empty without a qualifying snapshot;
\* otherwise current - baseline, and empty when either cell is empty
DeltaAsSpecified(d, k, delta, ws, key_fields, baseline) ==
    LET key == KeyOf(d, key_fields)
        cur == SheetCell(d, k)
    IN  IF Qualifying(ws, key_fields, key) = {} THEN d[delta] = EmptyCell
        ELSE \E b \in baseline :
                /\ b.key = key
                /\ LET base == SheetCell(b.row, k)
                   IN  IF cur = EmptyCell \/ base = EmptyCell
                       THEN d[delta] = EmptyCell
                       ELSE d[delta] = IntOut(cur.val - base.val)

\* C17: a delta field of a digest row is empty when history holds no snapshot
\* of the row's key with run_ts <= now - 6 days; with a baseline it is
\* current - baseline, and empty when the current or the baseline value of
\* the metric is empty.
C17_DeltaEmptyWithoutBaseline ==
    /\ WeeklyDone =>
          /\ Len(digest_rows) = Len(_read_table(summary_sheet))
          /\ Len(channel_digest_rows) = Len(_read_table(channel_sheet))
          /\ \A i \in DOMAIN digest_rows :
                /\ digest_rows[i].manager_id = summary_sheet.rows[i].manager_id
                /\ DeltaAsSpecified(digest_rows[i], "no_reply_chats",
                                    "delta_no_reply_chats", hist_mgr,
                                    << "manager_id", "manager_name" >>, mgr_baseline)
                /\ DeltaAsSpecified(digest_rows[i], "p90_first_reply_sec",
                                    "delta_p90_first_reply_sec", hist_mgr,
                                    << "manager_id", "manager_name" >>, mgr_baseline)
          /\ \A i \in DOMAIN channel_digest_rows :
                DeltaAsSpecified(channel_digest_rows[i], "no_reply_chats",
                                 "delta_no_reply_chats", hist_ch, << "channel" >>,
                                 ch_baseline)
    /\ BehaviorDone =>
          /\ Len(delta_rows) = Len(chats_raw)
          /\ \A i \in DOMAIN delta_rows :
                DeltaAsSpecified(delta_rows[i], "p90_first_reply_sec",
                                 "delta_p90_first_reply_sec", hist_beh,
                                 << "manager_id" >>, beh_baseline)

\* one run with a manager that has no baseline yet and one whose count
\* changed against its baseline
C17_Witness ==
    /\ WeeklyDone
    /\ Len(digest_rows) = 2
    /\ Qualifying(hist_mgr, << "manager_id", "manager_name" >>, << "", "" >>) = {}
    /\ digest_rows[2].delta_no_reply_chats = EmptyCell
    /\ digest_rows[2].delta_p90_first_reply_sec = EmptyCell
    /\ digest_rows[1].delta_no_reply_chats = IntOut(1)
    /\ digest_rows[1].delta_p90_first_reply_sec = EmptyCell
    /\ delta_rows[1].delta_p90_first_reply_sec = EmptyCell

Bijections(n) == { f \in [1..n -> 1..n] : \A i, j \in 1..n : i # j => f[i] # f[j] }
Permuted(rows, f) == [i \in DOMAIN rows |-> rows[f[i]]]
RowSet(rows) == { rows[i] : i \in DOMAIN rows }

\* C18: for every list of ChatMetrics and every permutation of it,
\* aggregate_manager_summary and aggregate_channel_summary give the same
\* summary row for every group.
C18_RollupsIgnoreInputOrder ==
    agg_pc = "done" =>
        \A f \in Bijections(Len(metrics_rows)) :
            /\ RowSet(aggregate_manager_summary(Permuted(metrics_rows, f)))
                  = RowSet(manager_summary)
            /\ RowSet(aggregate_channel_summary(Permuted(metrics_rows, f)))
                  = RowSet(channel_summary)

\* a group whose slower first reply was appended before its faster one
C18_Witness ==
    /\ agg_pc = "done"
    /\ \E i, j \in DOMAIN metrics_rows :
          /\ i < j
          /\ metrics_rows[i].manager_id = metrics_rows[j].manager_id
          /\ metrics_rows[i].channel = metrics_rows[j].channel
          /\ metrics_rows[i].first_response_sec.tag = "int"
          /\ metrics_rows[j].first_response_sec.tag = "int"
          /\ metrics_rows[i].first_response_sec.val > metrics_rows[j].first_response_sec.val
    /\ \E k \in DOMAIN manager_summary :
          /\ manager_summary[k].chats >= 2
          /\ manager_summary[k].median_first_reply_sec = IntOut(0)
          /\ manager_summary[k].p90_first_reply_sec = IntOut(700)

\* the label of the fixed order: closing, objection handling, needs
\* identification, presentation, greeting, none
StageInFixedOrder(text, position, total) ==
    LET text_lower == Strip(PyLower(text))
    IN  IF Len(text_lower) < MinStageLen THEN "None"
        ELSE IF IsClosing(text_lower) THEN "closing"
        ELSE IF IsObjection(text_lower) THEN "objections_handling"
        ELSE IF IsQuestion(text_lower) THEN "needs_identification"
        ELSE IF IsPresentation(text_lower) THEN "presentation"
        ELSE IF InGreetingZone(position, total) /\ IsGreeting(text_lower)
             THEN "greeting"
        ELSE "None"

\* C19: a single stage label is the first match in the order closing >
\* objection handling > needs identification > presentation > greeting >
\* unknown; a message with a closing cue is labelled closing whatever its
\* position and whatever other vocabulary it matches, in detect_sales_stage
\* and in extract_dialog_flow.
C19_ClosingCueWinsEverywhere ==
    /\ stage \notin { "pending", "idle" } =>
          stage = StageInFixedOrder(stage_text, position_in_chat, total_messages)
    /\ flow_pc = "done" =>
          \A i \in DOMAIN flow :
              AnyIn(PyLower(flow_messages[i]), flow_closing_words)
                  => flow[i].stage = "closing"

FlagsOf(m) == << m.has_situation, m.has_problem, m.has_implication, m.has_need_payoff >>
CountsOf(m) == << m.spin_s_count, m.spin_p_count, m.spin_i_count, m.spin_n_count >>
TrueFlags(m) == Cardinality({ k \in 1..SpinStages : FlagsOf(m)[k] })

\* C20: spin_completeness of a chat is the number of true flags among
\* has_situation, has_problem, has_implication, has_need_payoff over 4, each
\* flag being true exactly when its stage count is > 0; aggregate_manager_spin
\* counts a chat as full SPIN exactly when all four flags are true.
C20_SpinCompletenessIsFlagsOverFour ==
    /\ \A c \in DOMAIN spin_metrics :
          LET m == spin_metrics[c]
          IN  /\ \A k \in 1..SpinStages : FlagsOf(m)[k] <=> CountsOf(m)[k] > 0
              /\ m.spin_completeness.den > 0
              /\ m.spin_completeness.num * SpinStages
                    = TrueFlags(m) * m.spin_completeness.den
    /\ spin_pc = "done" =>
          \A r \in DOMAIN spin_agg :
              spin_agg[r].full_spin_chats =
                  Cardinality({ c \in DOMAIN spin_metrics :
                                  /\ spin_metrics[c].manager_id = spin_agg[r].manager_id
                                  /\ TrueFlags(spin_metrics[c]) = SpinStages })

\* one manager with a full SPIN chat and a chat of three stages
C20_Witness ==
    /\ spin_pc = "done"
    /\ Len(spin_agg) = 1
    /\ spin_agg[1].total_chats = 2
    /\ spin_agg[1].full_spin_chats = 1
    /\ \E c \in DOMAIN spin_metrics :
          /\ TrueFlags(spin_metrics[c]) = 3
          /\ spin_metrics[c].spin_completeness = Ratio(3, SpinStages)

\* C21: for every manager and every example category pick_top returns at most
\* 3 of the manager's candidates of that category, no unselected candidate
\* scores strictly higher than a selected one, the selected ones are in
\* descending score, and equal scores keep their encounter order.
OfManager(items, mid) == SelectSeq(items, LAMBDA c : c.mid = mid)

PositionOf(items, cid) == CHOOSE i \in DOMAIN items : items[i].cid = cid

C21_TopThreeByScoreStable ==
    top_pc = "done" =>
        \A k \in DOMAIN ExampleCategories, mid \in CandManagers :
            LET cs == OfManager(CategoryCandidates(cand_chats, ExampleCategories[k]), mid)
                sel == OfManager(top_examples[k], mid)
                chosen == { sel[i].cid : i \in DOMAIN sel }
            IN  /\ Len(sel) <= 3
                /\ \A i \in DOMAIN sel :
                      /\ sel[i].category = ExampleCategories[k]
                      /\ \E j \in DOMAIN cs : cs[j] = sel[i]
                /\ \A i, j \in DOMAIN sel : i # j => sel[i].cid # sel[j].cid
                /\ \A j \in DOMAIN cs : cs[j].cid \notin chosen =>
                      \A i \in DOMAIN sel : cs[j].score <= sel[i].score
                /\ \A i, j \in DOMAIN sel : i < j =>
                      /\ sel[i].score >= sel[j].score
                      /\ sel[i].score = sel[j].score =>
                            PositionOf(cs, sel[i].cid) < PositionOf(cs, sel[j].cid)

\* a manager with more than 3 slow_reply candidates, a slower one met after a
\* faster one, and two selected candidates of equal score
C21_Witness ==
    /\ top_pc = "done"
    /\ \E mid \in CandManagers :
          LET cs == OfManager(CategoryCandidates(cand_chats, "slow_reply"), mid)
              sel == OfManager(top_examples[2], mid)
          IN  /\ Len(cs) > 3
              /\ Len(sel) = 3
              /\ cs[1].score < cs[2].score
              /\ sel[1].score = sel[2].score
              /\ sel[2].score > sel[3].score

\* C22: a chat is a candidate of the good category exactly when the manager
\* responded, the last outbound message has a next-step cue, at least one
\* question was asked and first_response_sec is known and below 600; its
\* score is 600 - first_response_sec and faster chats rank first.
GoodAsSpecified(c) ==
    /\ c.responded /\ c.next_step /\ c.questions >= 1
    /\ c.fr.tag = "int" /\ c.fr.val < 600

C22_GoodIffFastRespondedNextStepQuestion ==
    top_pc = "done" =>
        LET good == CategoryCandidates(cand_chats, "good")
        IN  /\ \A i \in DOMAIN cand_chats :
                  (\E j \in DOMAIN good : good[j].cid = ToString(i))
                      <=> GoodAsSpecified(cand_chats[i])
            /\ \A j \in DOMAIN good :
                  \E i \in DOMAIN cand_chats :
                      /\ good[j].cid = ToString(i)
                      /\ cand_chats[i].fr.tag = "int"
                      /\ good[j].score = 600 - cand_chats[i].fr.val
            /\ \A a, b \in DOMAIN top_examples[4] : a < b =>
                  top_examples[4][a].score >= top_examples[4][b].score

\* C23: a chat is attributed to the chat-level manager id when that is set,
\* otherwise to the manager id of the first outbound message that carries
\* one, otherwise to the unassigned sentinel (empty id in the ChatMetrics,
\* empty id with name "(unassigned)" in behavior_digest); a message-level id
\* never overrides a chat-level one.
ByPrecedence(chat_level, message_level) ==
    IF chat_level # "" THEN chat_level ELSE message_level

\* compute_chat_metrics walks the messages as given
FirstOutboundManager(ms) ==
    LET outs == { i \in DOMAIN ms : ms[i].direction = "out" /\ ms[i].managerId # "" }
    IN  IF outs = {} THEN ""
        ELSE ms[CHOOSE i \in outs : \A j \in outs : i <= j].managerId

SheetChatIds == { messages_table[i].chat_id : i \in DOMAIN messages_table }

SheetChatLevel(cid) ==
    LET rows == { i \in DOMAIN chats_table : chats_table[i].chat_id = cid }
    IN  IF rows = {} THEN ""
        ELSE chats_table[CHOOSE i \in rows : \A j \in rows : j <= i].manager_id

\* behavior_digest walks the chat's rows of messages_raw in time order
SheetFirstOutboundManager(cid) ==
    LET outs == { i \in DOMAIN messages_table :
                    /\ messages_table[i].chat_id = cid
                    /\ messages_table[i].direction = "out"
                    /\ messages_table[i].manager_id # "" }
        Before(i, j) == \/ messages_table[i].sentAt.t < messages_table[j].sentAt.t
                        \/ /\ messages_table[i].sentAt.t = messages_table[j].sentAt.t
                           /\ i <= j
    IN  IF outs = {} THEN ""
        ELSE messages_table[CHOOSE i \in outs : \A j \in outs : Before(i, j)].manager_id

SheetManager(cid) == ByPrecedence(SheetChatLevel(cid), SheetFirstOutboundManager(cid))

C23_ManagerByPrecedence ==
    /\ (behavior_out.tag = "exported" /\ web_chats # << >>) =>
          \A i \in DOMAIN web_chats :
              metrics_rows[i].manager_id =
                  ByPrecedence(web_chats[i].managerId,
                               FirstOutboundManager(web_chats[i].messages))
    /\ behavior_out.tag = "ok" =>
          \A mid \in { "", "7", "8" } :
              LET mine == { cid \in SheetChatIds : SheetManager(cid) = mid }
                  rows == { i \in DOMAIN behavior_out.out_rows :
                              behavior_out.out_rows[i].manager_id = mid }
              IN  IF mine = {} THEN rows = {}
                  ELSE /\ Cardinality(rows) = 1
                       /\ \A i \in rows :
                             /\ behavior_out.out_rows[i].chats = Cardinality(mine)
                             /\ mid = "" =>
                                   behavior_out.out_rows[i].manager_name = "(unassigned)"

\* behavior_digest has attributed one chat by its chats_raw manager although
\* an outbound message names another, and one without chats_raw manager by
\* its first outbound message
C23_Witness ==
    /\ behavior_out.tag = "ok"
    /\ web_chats = << >>
    /\ \E cid \in SheetChatIds :
          /\ SheetChatLevel(cid) = "7"
          /\ SheetFirstOutboundManager(cid) = "8"
    /\ \E cid \in SheetChatIds :
          /\ SheetChatLevel(cid) = ""
          /\ SheetFirstOutboundManager(cid) # ""

\* C24: behavior_digest counts a chat as a follow-up gap exactly when the
\* chat has a timestamped customer message and no manager message is
\* timestamped strictly after the last such customer message; a chat without
\* a timestamped customer message is never counted.
StampedCustomerRows(cid) ==
    { i \in DOMAIN messages_table :
        /\ messages_table[i].chat_id = cid
        /\ messages_table[i].direction = "in"
        /\ messages_table[i].author_type = "Customer"
        /\ messages_table[i].sentAt.raw = "iso" }

ManagerRowAfter(cid, t) ==
    \E i \in DOMAIN messages_table :
        /\ messages_table[i].chat_id = cid
        /\ messages_table[i].direction = "out"
        /\ messages_table[i].sentAt.raw = "iso"
        /\ messages_table[i].sentAt.t > t

GapAsSpecified(cid) ==
    /\ StampedCustomerRows(cid) # {}
    /\ \E i \in StampedCustomerRows(cid) :
          /\ \A j \in StampedCustomerRows(cid) :
                messages_table[j].sentAt.t <= messages_table[i].sentAt.t
          /\ ~ManagerRowAfter(cid, messages_table[i].sentAt.t)

RECURSIVE GapHits(_)
GapHits(rows) ==
    IF rows = << >> THEN 0
    ELSE Head(rows).follow_up_gap_rate.num + GapHits(Tail(rows))

-----------------------------------------------------------------------------
\* the first-reply sample of a manager: the positive first_response_sec of
\* the manager's chats, in sheet order
FirstReplySample(mid) ==
    LET rows == SelectSeq(chats_table, LAMBDA r :
                    /\ r.manager_id = mid
                    /\ r.first_response_sec.tag = "int"
                    /\ r.first_response_sec.val > 0)
    IN  [i \in DOMAIN rows |-> rows[i].first_response_sec.val]

\* C25: for every non-empty sample of first-reply seconds, the median and
\* the p90 of the per-manager snapshot are the nearest-rank percentiles of
\* the sample, the values _pct returns for it.
C25_SnapshotPercentilesAreNearestRank ==
    behavior_out.tag = "ok" =>
        \A i \in DOMAIN behavior_out.out_rows :
            LET row == behavior_out.out_rows[i]
                sample == FirstReplySample(row.manager_id)
            IN  sample # << >> =>
                    /\ row.median_first_reply_sec = _pct(sample, 5)
                    /\ row.p90_first_reply_sec = _pct(sample, 9)

-----------------------------------------------------------------------------
\* the rows of the processed chats and of their messages, in processing order
ProcessedChatRows == [i \in 1..processed |-> ExportChatRow(i)]
ProcessedMessageRows ==
    Concat([i \in 1..processed |-> ExportMessageRows(i, pending_chats[i])])

\* C26: after an export run, row 1 of chats_raw and of messages_raw is the
\* header and the rows below are the processed chats' (messages') rows in
\* processing order, each once, for every number of chats and BATCH_SIZE.
C26_SheetsAreHeaderThenRows ==
    export_pc = "done" =>
        /\ processed > 0 => chats_ws = << ChatsHeader >> \o ProcessedChatRows
        /\ ProcessedMessageRows # << >> =>
                messages_ws = << MessagesHeader >> \o ProcessedMessageRows

-----------------------------------------------------------------------------
\* the chats of a summary row's group
MgrGroup(row) ==
    { i \in DOMAIN metrics_rows : /\ metrics_rows[i].manager_id = row.manager_id
                                  /\ metrics_rows[i].manager_name = row.manager_name }
ChGroup(row) ==
    { i \in DOMAIN metrics_rows : ChannelKey(metrics_rows[i]) = row.channel }

ExceedsThreshold(i) ==
    /\ metrics_rows[i].first_response_sec.tag = "int"
    /\ metrics_rows[i].first_response_sec.val > slow_first_reply_sec

HasSlowAdvice(i) ==
    \E k \in DOMAIN metrics_rows[i].advice : metrics_rows[i].advice[k] = SlowReplyAdvice

\* C27: for every group and every configured slow-reply threshold,
\* slow_first_reply_chats of the manager and channel summaries is the number
\* of the group's chats whose first_response_sec exceeds the threshold, the
\* chats whose advice carries the slow-first-reply flag.
C27_SlowCountFollowsConfiguredThreshold ==
    agg_pc = "done" =>
        /\ \A i \in DOMAIN metrics_rows : ExceedsThreshold(i) <=> HasSlowAdvice(i)
        /\ \A r \in DOMAIN manager_summary :
              manager_summary[r].slow_first_reply_chats =
                  Cardinality({ i \in MgrGroup(manager_summary[r]) : ExceedsThreshold(i) })
        /\ \A r \in DOMAIN channel_summary :
              channel_summary[r].slow_first_reply_chats =
                  Cardinality({ i \in ChGroup(channel_summary[r]) : ExceedsThreshold(i) })

-----------------------------------------------------------------------------
NoReplyChat(i) ==
    metrics_rows[i].outbound_count = 0 /\ metrics_rows[i].inbound_count > 0
RespondedChat(i) == metrics_rows[i].first_response_sec.tag = "int"

SummaryRowConsistent(row) ==
    /\ row.no_reply_chats + row.responded_chats <= row.chats
    /\ row.slow_first_reply_chats <= row.responded_chats
    /\ row.response_rate = Ratio(row.responded_chats, row.chats)
    /\ 0 <= row.response_rate.num
    /\ row.response_rate.num <= row.response_rate.den
    /\ row.response_rate.den > 0

-----------------------------------------------------------------------------
\* the stamps between the two ends, of the same kind as the ends
StampsBetween(a, c) ==
    { b \in ClockStamps : b.aware = a.aware /\ a.t <= b.t /\ b.t <= c.t }

BusinessSeconds(a, b) == _business_seconds_between(a, b, work_start, work_end).val

-----------------------------------------------------------------------------
\* a response the client takes for a final failure: a status that is
\* neither a success nor one of 429/500/502/503/504, or, for RetailCRM, a
\* body that says "success": false
FinalFailure(r) ==
    /\ r.kind = "response"
    /\ r.code \notin RetryStatuses
    /\ \/ ~RespOk(r)
       \/ http_client = "retailcrm" /\ ~r.success

\* C30: in both clients only 429/500/502/503/504 responses and transport
\* failures are retried: any other non-success status or an application
\* error makes the call raise without another HTTP request.
C30_OnlyRetryableFailuresRetried ==
    \A i \in DOMAIN http_log :
        FinalFailure(http_log[i]) => i = Len(http_log) /\ http_result = "raised"

====
